---- MODULE Spec2Model ----
(***************************************************************************)
(* The iFood conciliation pipeline of backend-python/scripts/              *)
(* process_conciliation.py: process_conciliation_file and the functions it *)
(* calls, against the two collections it mutates (ifood_conciliation and   *)
(* received_files).  Every call to the store is one atomic step; each may  *)
(* fail.                                                                   *)
(***************************************************************************)
EXTENDS Integers, Sequences, FiniteSets, TLC

\* ------------------------------------------------------------------ bounds

\* Calls of process_conciliation_file in one behaviour.
MaxRuns == 2
\* Failing store calls (status write, delete, upsert) in one call of
\* process_conciliation_file, when every call may fail.
MaxFaults == 2
\* Failing deletes and upserts in one call, when status writes do not fail.
MaxStoreFaults == 1
\* Rows of the largest file: the smallest count that needs three batches.
BigRows == 201
\* Sheets of the largest workbook.
MaxSheets == 3

\* ------------------------------------------------------- program constants

\* batch_size
BatchSize == 100
\* details.splitlines()[0][:250]
MsgLimit == 250
\* len("Erro fatal no processamento: ")
FatalPrefixLen == 29
\* len("O arquivo Excel está vazio ou não contém dados na segunda aba.")
EmptyMsgLen == 62

\* ------------------------------------------------------------------ values

Procs == {1, 2}
Accounts == {"acc1", "acc2"}
FileIds == {"f1", "f2"}

\* A date is <<year, month, day>>; a null competence_date is NullDate.
NullDate == <<0, 0, 0>>
May31 == <<2024, 5, 31>>
Jun01 == <<2024, 6, 1>>
Jun30 == <<2024, 6, 30>>
Dec31 == <<2024, 12, 31>>
Jan01 == <<2025, 1, 1>>

DateLt(a, b) ==
    \/ a[1] < b[1]
    \/ a[1] = b[1] /\ a[2] < b[2]
    \/ a[1] = b[1] /\ a[2] = b[2] /\ a[3] < b[3]

DateGe(a, b) == ~DateLt(a, b)

\* A text is a sequence of lines; a line is its length and what it says.
\* A null text is <<>> and a null line is NullLine.
NullText == <<>>
NullLine == [tag |-> <<"null">>, len |-> 0]

\* ----------------------------------------------------- cells and cleaning

\* A text is a sequence of characters. A cell of the source table, as pandas
\* holds it with dtype=object: a text, an empty cell (NaN), a number, an
\* infinite number, a date-time object, or a text that pandas parses as a
\* date; None is what cleaning writes for null. A cell is a pair: its kind,
\* then its value.
Str(cs) == <<"str", cs>>
Nan == <<"nan", <<>>>>
None == <<"none", <<>>>>
Inf == <<"inf", <<>>>>
DateTime(d) == <<"datetime", d>>
DateText(d) == <<"datetext", d>>
\* A finite float: sign, integer part, digits after the point (no trailing 0).
Float(neg, units, frac) == <<"float", <<neg, units, frac>>>>

Digits == <<"0", "1", "2", "3", "4", "5", "6", "7", "8", "9">>
DigitChars == {Digits[i] : i \in 1..Len(Digits)}

\* str(n) of a natural number.
RECURSIVE IntChars(_)
IntChars(n) ==
    IF n < Len(Digits) THEN <<Digits[n + 1]>>
    ELSE IntChars(n \div Len(Digits)) \o <<Digits[(n % Len(Digits)) + 1]>>

\* int(cs) of a text of digits (0 for the empty text).
RECURSIVE IntOf(_)
IntOf(cs) ==
    IF cs = <<>> THEN 0
    ELSE IntOf(SubSeq(cs, 1, Len(cs) - 1)) * Len(Digits)
         + (CHOOSE i \in 1..Len(Digits) : Digits[i] = cs[Len(cs)]) - 1

\* Two characters for a month, a day.
TwoChars(n) == IF n < Len(Digits) THEN <<"0">> \o IntChars(n) ELSE IntChars(n)

NoneChars == <<"N", "o", "n", "e">>

\* str(x) of a cell, as astype(str) makes it.
AsStr(cell) ==
    CASE cell[1] = "str" -> cell[2]
      [] cell[1] = "none" -> NoneChars
      [] cell[1] = "nan" -> <<"n", "a", "n">>
      [] cell[1] = "inf" -> <<"i", "n", "f">>
      [] cell[1] = "float" ->
            (IF cell[2][1] THEN <<"-">> ELSE <<>>) \o IntChars(cell[2][2]) \o <<".">>
            \o (IF cell[2][3] = <<>> THEN <<"0">> ELSE cell[2][3])
      [] OTHER ->
            IntChars(cell[2][1]) \o <<"-">> \o TwoChars(cell[2][2]) \o <<"-">>
            \o TwoChars(cell[2][3]) \o <<" ", "0", "0", ":", "0", "0", ":", "0", "0">>

\* df.replace({np.nan: None})
NanToNone(cell) == IF cell[1] = "nan" THEN None ELSE cell

\* pd.to_datetime(errors='coerce') and isoformat: the date the cell holds or
\* spells, null for anything else.
CleanDate(cell) == IF cell[1] \in {"datetime", "datetext"} THEN cell[2] ELSE NullDate

\* The identifier columns: astype(str), a '.0' at the end stripped, the text
\* 'None' back to null.
CleanId(cell) ==
    LET cs == AsStr(NanToNone(cell))
        stripped == IF Len(cs) >= 2 /\ cs[Len(cs) - 1] = "." /\ cs[Len(cs)] = "0"
                    THEN SubSeq(cs, 1, Len(cs) - 2) ELSE cs
    IN  IF stripped = NoneChars THEN None ELSE Str(stripped)

\* The digits after the point without the zeros at the end.
RECURSIVE TrimZeros(_)
TrimZeros(cs) ==
    IF cs # <<>> /\ cs[Len(cs)] = "0" THEN TrimZeros(SubSeq(cs, 1, Len(cs) - 1)) ELSE cs

\* pd.to_numeric(errors='coerce') of a text: an optional minus, digits with
\* at most one point among them; NaN for anything else.
ToNumeric(cs) ==
    LET neg == cs # <<>> /\ cs[1] = "-"
        body == IF neg THEN Tail(cs) ELSE cs
        dots == {i \in 1..Len(body) : body[i] = "."}
        p == IF dots = {} THEN Len(body) + 1 ELSE CHOOSE i \in dots : TRUE
    IN  IF \/ Cardinality(dots) > 1
           \/ \E i \in 1..Len(body) : body[i] = "-"
           \/ \A i \in 1..Len(body) : body[i] \notin DigitChars
        THEN Nan
        ELSE Float(neg, IntOf(SubSeq(body, 1, p - 1)),
                   TrimZeros(SubSeq(body, p + 1, Len(body))))

\* The value columns: astype(str), every character but digits, comma, point
\* and minus dropped ([^0-9,\.-]), comma turned into point, to_numeric,
\* infinities to NaN; the last df.replace turns NaN into null.
CleanValue(cell) ==
    LET cs == SelectSeq(AsStr(NanToNone(cell)),
                        LAMBDA c : c \in DigitChars \cup {",", ".", "-"})
        dotted == [i \in 1..Len(cs) |-> IF cs[i] = "," THEN "." ELSE cs[i]]
        number == ToNumeric(dotted)
    IN  NanToNone(IF number[1] = "inf" THEN Nan ELSE number)

\* A cleaned record of the dataframe: competence_date, the other
\* natural-key columns (key: gross_value, store_id, transaction_description)
\* and a column outside the natural key (extra: cancellation_reason).
Row(d, k, x) == [competence_date |-> d, key |-> k, extra |-> x]

\* A row of the source table, by source column.
RawRow(competencia, valor, loja_id, descricao, motivo) ==
    [competencia |-> competencia, valor |-> valor, loja_id |-> loja_id,
     descricao_lancamento |-> descricao, motivo_cancelamento |-> motivo]

\* What read_and_clean_data makes of a row: dates, identifiers and values
\* cleaned, the other columns only with NaN turned into null.
CleanRow(raw) ==
    Row(CleanDate(raw.competencia),
        <<CleanValue(raw.valor), CleanId(raw.loja_id), NanToNone(raw.descricao_lancamento)>>,
        NanToNone(raw.motivo_cancelamento))

\* _sanitize_value: NaN and the infinities become null, anything else stays.
SanitizeValue(v) == IF v[1] \in {"nan", "inf"} THEN None ELSE v

\* _sanitize_record
SanitizeRecord(rec) ==
    [rec EXCEPT !.key = [i \in 1..Len(rec.key) |-> SanitizeValue(rec.key[i])],
                !.extra = SanitizeValue(rec.extra),
                !.layout_version = SanitizeValue(rec.layout_version)]

\* ------------------------------------------------------------- source files

\* The column names of the two layouts, trimmed and lower-cased.
V3_MARKERS == {"pedido_detalhes", "id_saldo", "metodo_pagamento", "bandeira_pagamento"}
LegacyColumns ==
    {"competencia", "valor", "loja_id", "descricao_lancamento", "motivo_cancelamento",
     "base_calculo"}

\* A source row with a date (none for NullDate), a value k and a reason x.
Line(d, k, x) ==
    RawRow(IF d = NullDate THEN Nan ELSE DateText(d), Str(IntChars(k)), Nan, Nan,
           Str(IntChars(x)))

\* A source file: a workbook of two sheets with the legacy columns whose
\* data sheet holds n rows that repeat the pattern pat. A file may instead
\* be unreadable, a workbook without sheets (sheets = 0), or delimited text
\* (ext = "csv") that parses with the semicolon (semi), the comma (comma),
\* or neither. The sheets (counted from 0) whose parse raises ValueError are
\* invalid, those whose parse raises another exception are broken. The field
\* columns holds the headers trimmed and lower-cased; the headers the file
\* writes with capitals or surrounding blanks are odd.
File(pat, n) ==
    [readable |-> TRUE, ext |-> "xlsx", sheets |-> 2, invalid |-> {}, broken |-> {},
     semi |-> FALSE, comma |-> FALSE, columns |-> LegacyColumns, odd |-> {},
     pat |-> pat, n |-> n]
BadFile == [File(<<>>, 0) EXCEPT !.readable = FALSE]
EmptyFile == File(<<>>, 0)
JuneDup == File(<<Line(Jun01, 1, 1), Line(Jun01, 1, 1)>>, 2)
JuneDupX == File(<<Line(Jun01, 1, 2), Line(Jun01, 1, 1)>>, 2)
JuneOther == File(<<Line(Jun30, 2, 1), Line(NullDate, 3, 1)>>, 2)
Around == File(<<Line(May31, 1, 1), Line(Jun30, 2, 1), Line(Dec31, 1, 1), Line(Jan01, 1, 1)>>, 4)
BigFile == File(<<Line(Jun01, 1, 1), Line(Jun30, 2, 1), Line(NullDate, 3, 1)>>, BigRows)

\* The two-row legacy CSV: delimited text that parses with the semicolon and
\* holds the same row twice, with the value "1.234,56" and the store "10.0".
ScenarioCsv ==
    LET row == RawRow(DateText(Jun01), Str(<<"1", ".", "2", "3", "4", ",", "5", "6">>),
                      Str(<<"1", "0", ".", "0">>), Str(<<"p", "i", "x">>), Nan)
    IN  [File(<<row, row>>, 2) EXCEPT !.ext = "csv", !.sheets = 0, !.semi = TRUE]
\* Plain values: "R$ 1234.56", -5.5, 10.0 as a number, an empty date.
PlainXlsx ==
    File(<<RawRow(DateTime(Jun01), Str(<<"R", "$", " ">> \o <<"1", "2", "3", "4", ".", "5", "6">>),
                  Float(FALSE, 10, <<>>), Nan, Str(<<"x">>)),
           RawRow(Nan, Float(TRUE, 5, <<"5">>), Str(NoneChars), Str(<<"a">>), Nan)>>, 2)
\* Infinite and missing numbers in value, identifier and free columns.
NonFiniteXlsx ==
    File(<<RawRow(DateTime(Jun30), Inf, Nan, Inf, Nan),
           RawRow(DateText(May31), Nan, Inf, Nan, Inf)>>, 2)
\* Date-typed cells in a value, an identifier and a free-text column.
DateCellXlsx ==
    File(<<RawRow(DateTime(Jun01), DateTime(Jun30), DateTime(Jun30), Str(<<"a">>), Nan),
           RawRow(DateTime(Jun01), Str(<<"7">>), Str(<<"7">>), DateTime(Jun30), Nan)>>, 2)

\* layout_hint: None or a text. The hints that are v3 or legacy once trimmed
\* and lower-cased, and the others.
V3Hints == {Str(<<"v", "3">>), Str(<<" ", "V", "3", "\n">>)}
LegacyHints ==
    {Str(<<"l", "e", "g", "a", "c", "y">>), Str(<<"L", "e", "g", "a", "c", "y", " ">>)}
OtherHints ==
    {None, Str(<<>>), Str(<<" ">>), Str(<<"v", "4">>), Str(<<"v", " ", "3">>),
     Str(<<"l", "e", "g", "a", "c", "y", "2">>)}

\* str.strip()
RECURSIVE Strip(_)
Strip(cs) ==
    IF cs = <<>> THEN cs
    ELSE IF Head(cs) \in {" ", "\t", "\n", "\r"} THEN Strip(Tail(cs))
    ELSE IF cs[Len(cs)] \in {" ", "\t", "\n", "\r"} THEN Strip(SubSeq(cs, 1, Len(cs) - 1))
    ELSE cs

UpperCase ==
    <<"A", "B", "C", "D", "E", "F", "G", "H", "I", "J", "K", "L", "M",
      "N", "O", "P", "Q", "R", "S", "T", "U", "V", "W", "X", "Y", "Z">>
LowerCase ==
    <<"a", "b", "c", "d", "e", "f", "g", "h", "i", "j", "k", "l", "m",
      "n", "o", "p", "q", "r", "s", "t", "u", "v", "w", "x", "y", "z">>

\* str.lower()
Lower(cs) ==
    [i \in 1..Len(cs) |->
        IF \E k \in 1..Len(UpperCase) : UpperCase[k] = cs[i]
        THEN LowerCase[CHOOSE k \in 1..Len(UpperCase) : UpperCase[k] = cs[i]]
        ELSE cs[i]]

\* normalize_layout_hint: None for no hint, an empty one or one that is not
\* 'legacy' or 'v3' once trimmed and lower-cased.
NormalizeLayoutHint(layout_hint) ==
    IF layout_hint = None \/ layout_hint[2] = <<>> THEN None
    ELSE IF Lower(Strip(layout_hint[2])) \in {<<"l", "e", "g", "a", "c", "y">>, <<"v", "3">>}
         THEN Str(Lower(Strip(layout_hint[2])))
         ELSE None

\* v3 as soon as one marker column is there.
DetectLayout_anymarker(columns, layout_hint) ==
    LET normalized_hint == NormalizeLayoutHint(layout_hint)
    IN  IF normalized_hint # None THEN normalized_hint
        ELSE IF V3_MARKERS \cap columns # {} THEN Str(<<"v", "3">>)
        ELSE Str(<<"l", "e", "g", "a", "c", "y">>)

\* detect_layout
DetectLayout(columns, layout_hint) ==
    LET normalized_hint == NormalizeLayoutHint(layout_hint)
    IN  IF normalized_hint # None THEN normalized_hint
        ELSE IF V3_MARKERS \subseteq columns THEN Str(<<"v", "3">>)
        ELSE Str(<<"l", "e", "g", "a", "c", "y">>)

\* ------------------------------------------------ mappings and worksheets

\* A dict as the sequence of its items, <<key, value>>, in insertion order.
COLUMNS_MAPPING_LEGACY ==
    <<<<"competencia", "competence_date">>, <<"data_fato_gerador", "event_date">>,
      <<"fato_gerador", "event_trigger">>, <<"tipo_lancamento", "transaction_type">>,
      <<"descricao_lancamento", "transaction_description">>, <<"valor", "gross_value">>,
      <<"base_calculo", "calculation_base_value">>, <<"percentual_taxa", "tax_percentage">>,
      <<"pedido_associado_ifood", "ifood_order_id">>, <<"pedido_associado_ifood_curto", "ifood_order_id_short">>,
      <<"pedido_associado_externo", "external_order_id">>, <<"motivo_cancelamento", "cancellation_reason">>,
      <<"descricao_ocorrencia", "occurrence_description">>, <<"data_criacao_pedido_associado", "order_creation_date">>,
      <<"data_repasse_esperada", "expected_payment_date">>, <<"valor_transacao", "transaction_value">>,
      <<"loja_id", "store_id">>, <<"loja_id_curto", "store_id_short">>,
      <<"loja_id_externo", "store_id_external">>, <<"cnpj", "cnpj">>,
      <<"titulo", "title">>, <<"data_faturamento", "billing_date">>,
      <<"data_apuracao_inicio", "settlement_start_date">>, <<"data_apuracao_fim", "settlement_end_date">>,
      <<"valor_cesta_inicial", "initial_basket_value">>, <<"valor_cesta_final", "final_basket_value">>,
      <<"responsavel_transacao", "transaction_responsible">>, <<"canal_vendas", "sales_channel">>,
      <<"impacto_no_repasse", "payment_impact">>, <<"parcela_pagamento", "payment_installment">>,
      <<"pedido_detalhes", "order_details">>, <<"metodo_pagamento", "payment_method">>,
      <<"bandeira_pagamento", "payment_brand">>>>

\* d[k] = v of a dict: the value replaced in place for a key it has, the item
\* added at the end for a new key.
DictSet(d, k, v) ==
    IF \E i \in 1..Len(d) : d[i][1] = k
    THEN [i \in 1..Len(d) |-> IF d[i][1] = k THEN <<k, v>> ELSE d[i]]
    ELSE Append(d, <<k, v>>)

\* The v3 mapping without the item of id_saldo.
COLUMNS_MAPPING_V3_nosaldo ==
    DictSet(DictSet(DictSet(COLUMNS_MAPPING_LEGACY,
        "pedido_detalhes", "order_details"),
        "metodo_pagamento", "payment_method"),
        "bandeira_pagamento", "payment_brand")

\* {**COLUMNS_MAPPING_LEGACY, four items}
COLUMNS_MAPPING_V3 ==
    DictSet(DictSet(DictSet(DictSet(COLUMNS_MAPPING_LEGACY,
        "pedido_detalhes", "order_details"),
        "id_saldo", "balance_id"),
        "metodo_pagamento", "payment_method"),
        "bandeira_pagamento", "payment_brand")

EXTRA_COLUMNS ==
    <<"order_details", "payment_method", "payment_brand", "balance_id", "layout_version">>

\* get_mapping_for_layout
GetMappingForLayout(layout_version) ==
    IF layout_version = Str(<<"v", "3">>) THEN COLUMNS_MAPPING_V3 ELSE COLUMNS_MAPPING_LEGACY

\* The columns of the dataframe returned, without the extra columns.
FinalColumns_noextra(column_mapping) ==
    [i \in 1..Len(column_mapping) |-> column_mapping[i][2]]

\* final_columns, the columns of the dataframe returned, in order:
\* dict.fromkeys of the mapping's values, then the extra columns not yet there.
FinalColumns(column_mapping) ==
    LET values == [i \in 1..Len(column_mapping) |-> column_mapping[i][2]]
        first == {i \in 1..Len(values) : \A j \in 1..(i - 1) : values[j] # values[i]}
        rank(i) == Cardinality({j \in first : j <= i})
        keys == [k \in 1..Cardinality(first) |-> values[CHOOSE i \in first : rank(i) = k]]
    IN  keys \o SelectSeq(EXTRA_COLUMNS, LAMBDA c : \A i \in 1..Len(keys) : keys[i] # c)

\* Always the first sheet.
SelectSheetName_first(sheets, layout_hint) == 0

\* _select_sheet_name for a workbook of at least one sheet: the place of the
\* sheet in sheet_names, from 0.
SelectSheetName(sheets, layout_hint) ==
    LET normalized_hint == NormalizeLayoutHint(layout_hint)
    IN  IF normalized_hint = Str(<<"l", "e", "g", "a", "c", "y">>) /\ sheets > 1 THEN 1
        ELSE IF normalized_hint = Str(<<"v", "3">>) THEN 0
        ELSE IF sheets > 1 THEN 1
        ELSE 0

\* The sheets excel_file.parse is called on, in order, for the input i of a
\* call on a workbook with sheets: the selected sheet, then sheet 0 when the
\* selected one raised ValueError.
SheetsParsed(i) ==
    LET selected_sheet == SelectSheetName(i.file_path.sheets, i.layout_hint)
    IN  IF selected_sheet \in i.file_path.invalid THEN <<selected_sheet, 0>>
        ELSE <<selected_sheet>>

\* A workbook without sheets read as an empty table instead of raising.
ReadRaises_sheets(i) ==
    LET f == i.file_path
    IN  \/ ~f.readable
        \/ f.ext = "csv" /\ ~f.semi /\ ~f.comma
        \/ f.ext # "csv" /\ f.sheets > 0 /\
             LET parsed == SheetsParsed(i)
             IN  parsed[Len(parsed)] \in f.invalid \cup f.broken

\* read_and_clean_data raises for the input i of a call: the file cannot be
\* opened, read_csv fails with the semicolon and again with the comma, a
\* workbook has no sheet (_select_sheet_name raises ValueError), or the last
\* sheet parsed raises: the selected one with another exception than
\* ValueError, or sheet 0 parsed in its place.
ReadRaises(i) ==
    LET f == i.file_path
    IN  \/ ~f.readable
        \/ f.ext = "csv" /\ ~f.semi /\ ~f.comma
        \/ f.ext # "csv" /\ f.sheets = 0
        \/ f.ext # "csv" /\ f.sheets > 0 /\
             LET parsed == SheetsParsed(i)
             IN  parsed[Len(parsed)] \in f.invalid \cup f.broken

\* What read_and_clean_data found for the input i: the sheet selected and the
\* sheets parsed (none for delimited text or when the file did not open),
\* and, when it returned, column_mapping and the columns of the dataframe.
Frame(i, layout_version) ==
    LET workbook == i.file_path.readable /\ i.file_path.ext # "csv" /\ i.file_path.sheets > 0
    IN  [selected_sheet |-> IF workbook
                            THEN SelectSheetName(i.file_path.sheets, i.layout_hint) ELSE 0 - 1,
         parsed |-> IF workbook THEN SheetsParsed(i) ELSE <<>>,
         column_mapping |-> IF ReadRaises(i) THEN <<>> ELSE GetMappingForLayout(layout_version),
         columns |-> IF ReadRaises(i) THEN <<>>
                     ELSE FinalColumns(GetMappingForLayout(layout_version))]

NoFrame == [selected_sheet |-> 0 - 1, parsed |-> <<>>, column_mapping |-> <<>>, columns |-> <<>>]

SourceFiles == {BadFile, EmptyFile, JuneDup, JuneDupX, JuneOther, Around, BigFile}

\* The scenarios. "faults": one account, a second file id for one file
\* only, every call to the store may fail. "store": two accounts and more
\* files under both file ids, so that runs meet each other's entries; only
\* deletes and upserts fail.
FaultInputs ==
    [file_path : {BadFile, EmptyFile, JuneDup, Around, BigFile},
     file_id : {"f1"}, account_id : {"acc1"}, layout_hint : {None}]
    \cup [file_path : {JuneDup}, file_id : {"f2"}, account_id : {"acc1"},
          layout_hint : {None}]
StoreInputs ==
    [file_path : {EmptyFile, JuneDup, JuneDupX, JuneOther, Around, BigFile},
     file_id : FileIds, account_id : Accounts, layout_hint : {None}]

\* "batch": files of one row, of one row less than a batch, of a full batch,
\* of one row more and of two full batches; deletes and upserts fail.
Sized(n) == File(<<Line(Jun01, 1, 1), Line(Jun30, 2, 1), Line(NullDate, 3, 1)>>, n)
BatchInputs ==
    [file_path : {BadFile, EmptyFile, Sized(1), Sized(BatchSize - 1), Sized(BatchSize),
                  Sized(BatchSize + 1), Sized(BatchSize + BatchSize)},
     file_id : {"f1"}, account_id : {"acc1"}, layout_hint : {None}]

\* "content": one call on a file of some content without a hint (a file
\* that cannot be opened, a workbook without sheets, text that parses with
\* neither delimiter, an empty table, the two-row CSV, the same CSV parsing
\* only with the comma, three workbooks), or on a file that differs from
\* JuneDup in its columns only (every marker, every marker but one, none)
\* with any hint, or on a workbook that differs from JuneDup in its sheets
\* (1..MaxSheets of them, of which the first two may fail to parse, with
\* ValueError or with another exception) with no hint, v3, legacy or v4;
\* the June file with some headers capitalised or padded; only status
\* writes fail.
ContentInputs ==
    [file_path : {BadFile, [File(<<>>, 0) EXCEPT !.sheets = 0],
                  [ScenarioCsv EXCEPT !.semi = FALSE], EmptyFile, ScenarioCsv,
                  [ScenarioCsv EXCEPT !.semi = FALSE, !.comma = TRUE],
                  PlainXlsx, NonFiniteXlsx, DateCellXlsx},
     file_id : {"f1"}, account_id : {"acc1"}, layout_hint : {None}]
    \cup [file_path : {[JuneDup EXCEPT !.columns = c] :
                          c \in {LegacyColumns \cup V3_MARKERS, V3_MARKERS, {}, LegacyColumns}
                                \cup {(LegacyColumns \cup V3_MARKERS) \ {m} : m \in V3_MARKERS}},
          file_id : {"f1"}, account_id : {"acc1"},
          layout_hint : V3Hints \cup LegacyHints \cup OtherHints]
    \cup [file_path : {[JuneDup EXCEPT !.sheets = n, !.invalid = iv, !.broken = br \ iv] :
                          n \in 1..MaxSheets, iv \in SUBSET {0, 1}, br \in SUBSET {0, 1}},
          file_id : {"f1"}, account_id : {"acc1"},
          layout_hint : {None, Str(<<"v", "3">>), Str(<<"l", "e", "g", "a", "c", "y">>),
                         Str(<<"v", "4">>)}]
    \cup [file_path : {[JuneDup EXCEPT !.odd = o] :
                          o \in {{"valor"}, {"competencia"}, {"motivo_cancelamento"},
                                 LegacyColumns}}
                       \cup {[JuneDup EXCEPT !.columns = LegacyColumns \cup V3_MARKERS,
                                            !.odd = V3_MARKERS \cup {"loja_id"}]},
          file_id : {"f1"}, account_id : {"acc1"}, layout_hint : {None}]

\* The rows of a source table that has the given columns, cleaned one by
\* one: a canonical column whose source column the table lacks is created
\* with None.
RECURSIVE CleanRows(_, _)
CleanRows(raws, columns) ==
    IF raws = <<>> THEN <<>>
    ELSE LET row == CleanRow(Head(raws))
         IN  <<Row(IF "competencia" \in columns THEN row.competence_date ELSE NullDate,
                   <<IF "valor" \in columns THEN row.key[1] ELSE None,
                     IF "loja_id" \in columns THEN row.key[2] ELSE None,
                     IF "descricao_lancamento" \in columns THEN row.key[3] ELSE None>>,
                   IF "motivo_cancelamento" \in columns THEN row.extra ELSE None)>>
             \o CleanRows(Tail(raws), columns)

\* The dataframe read_and_clean_data builds for a file it can read, before
\* it sets layout_version: the rows 1..n cleaned (row i has index i-1).
\* df.rename matches the keys of the mapping against the headers as the
\* file writes them, so an odd header is not renamed and its column is
\* dropped with the other columns that are not canonical.
DataFrame(f) ==
    LET cleaned == CleanRows(f.pat, f.columns \ f.odd)
    IN  [i \in 1..f.n |-> cleaned[((i - 1) % Len(cleaned)) + 1]]

\* The column layout_version set to the same value on every row.
\* df['layout_version'] = layout_version
WithLayoutVersion(df, layout_version) ==
    [i \in 1..Len(df) |->
        [competence_date |-> df[i].competence_date, key |-> df[i].key,
         extra |-> df[i].extra, layout_version |-> layout_version]]

SeqToSet(s) == {s[i] : i \in 1..Len(s)}

Min(a, b) == IF a < b THEN a ELSE b

\* ----------------------------------------------------------------- state

VARIABLES
    scenario,   \* which inputs and failures are drawn
    store,      \* ifood_conciliation: the stored entries
    files,      \* received_files: file id -> status record
    clock,      \* calls of process_conciliation_file so far; also the time
    prev,       \* the last call that returned, or was killed, before the latest
                \* call began
    pc,         \* per call: where process_conciliation_file stands
    inp,        \* per call: file_path (what it holds), file_id, account_id,
                \* layout_hint
    layout,     \* per call: layout_version as read_and_clean_data returned it
    frame,      \* per call: the sheets read_and_clean_data selected and parsed,
                \* column_mapping and the columns of the dataframe it returned
    records,    \* per call: unique_records
    todo,       \* per call: competences_to_delete not deleted yet
    start,      \* per call: start of the batch loop
    exc,        \* per call: str(e) of the exception being handled
    ops,        \* per call: the calls made to file and store, in order
    failed,     \* per call: the places in ops of the calls that failed
    store0      \* per call: the store when the call began

vars == <<scenario, store, files, clock, prev, pc, inp, layout, frame, records, todo, start,
          exc, ops, failed, store0>>

\* ------------------------------------------------- identity and hash engine

\* natural_basis: the NATURAL_KEY_COLUMNS of a record (competence_date and
\* the other key columns), without the row index.
NaturalBasis(rec) == <<rec.competence_date, rec.key>>

\* uuid5(NAMESPACE_URL, account_id | json(dedupe_basis)): a name-based
\* identifier, one per distinct name.
DeterministicId(account_id, basis, idx) == <<account_id, basis, idx>>

\* md5(json(natural_basis)).
NaturalHash(basis) == <<"md5", basis>>

\* An id drawn afresh in every call (a random or time-based identifier).
IdentifiedRecord_fresh(rec, idx, account_id, file_id) ==
    [id |-> DeterministicId(account_id, <<NaturalBasis(rec), clock>>, idx),
     natural_hash |-> NaturalHash(NaturalBasis(rec)),
     account_id |-> account_id,
     received_file_id |-> file_id,
     competence_date |-> rec.competence_date,
     key |-> rec.key,
     extra |-> rec.extra,
     layout_version |-> rec.layout_version]

\* An id that also hashes received_file_id.
IdentifiedRecord_fileid(rec, idx, account_id, file_id) ==
    [id |-> DeterministicId(account_id, <<NaturalBasis(rec), file_id>>, idx),
     natural_hash |-> NaturalHash(NaturalBasis(rec)),
     account_id |-> account_id,
     received_file_id |-> file_id,
     competence_date |-> rec.competence_date,
     key |-> rec.key,
     extra |-> rec.extra,
     layout_version |-> rec.layout_version]

\* An id that hashes the whole record instead of its natural key.
IdentifiedRecord_allfields(rec, idx, account_id, file_id) ==
    [id |-> DeterministicId(account_id, <<NaturalBasis(rec), rec.extra>>, idx),
     natural_hash |-> NaturalHash(NaturalBasis(rec)),
     account_id |-> account_id,
     received_file_id |-> file_id,
     competence_date |-> rec.competence_date,
     key |-> rec.key,
     extra |-> rec.extra,
     layout_version |-> rec.layout_version]

\* An id that leaves the row index out of the dedupe basis.
IdentifiedRecord_noidx(rec, idx, account_id, file_id) ==
    [id |-> DeterministicId(account_id, NaturalBasis(rec), 0),
     natural_hash |-> NaturalHash(NaturalBasis(rec)),
     account_id |-> account_id,
     received_file_id |-> file_id,
     competence_date |-> rec.competence_date,
     key |-> rec.key,
     extra |-> rec.extra,
     layout_version |-> rec.layout_version]

\* unique_records[start:start + batch_size - 1]: the slice one record short.
Batch_short(recs, first) == SubSeq(recs, first + 1, Min(first + BatchSize - 1, Len(recs)))

\* The body of the enumerate loop: the record with account_id,
\* received_file_id, id and natural_hash attached.
IdentifiedRecord(rec, idx, account_id, file_id) ==
    [id |-> DeterministicId(account_id, NaturalBasis(rec), idx),
     natural_hash |-> NaturalHash(NaturalBasis(rec)),
     account_id |-> account_id,
     received_file_id |-> file_id,
     competence_date |-> rec.competence_date,
     key |-> rec.key,
     extra |-> rec.extra,
     layout_version |-> rec.layout_version]

\* records_to_insert: one identified record per row of the dataframe.
RecordsToInsert(df, account_id, file_id) ==
    [i \in 1..Len(df) |->
        IdentifiedRecord(SanitizeRecord(df[i]), i - 1, account_id, file_id)]

\* The last record of every id kept instead of the first.
UniqueRecords_later(recs) ==
    LET keep == {i \in 1..Len(recs) : \A j \in (i + 1)..Len(recs) : recs[j].id # recs[i].id}
        rank(i) == Cardinality({j \in keep : j <= i})
    IN  [k \in 1..Cardinality(keep) |-> recs[CHOOSE i \in keep : rank(i) = k]]

\* unique_records: the first record of every id, in order (seen_ids). A
\* record is kept when no earlier record has its id.
UniqueRecords(recs) ==
    LET keep == {i \in 1..Len(recs) : \A j \in 1..(i - 1) : recs[j].id # recs[i].id}
        rank(i) == Cardinality({j \in keep : j <= i})
    IN  IF keep = 1..Len(recs)
        THEN recs
        ELSE [k \in 1..Cardinality(keep) |-> recs[CHOOSE i \in keep : rank(i) = k]]

\* ------------------------------------------------------------ period replacer

\* comp_date[:7], the 'YYYY-MM' of an ISO date-time.
PeriodKey(d) == <<d[1], d[2]>>

\* competences_to_delete: the period keys of the non-null competence dates.
Competences(recs) ==
    {PeriodKey(recs[i].competence_date) :
        i \in {j \in 1..Len(recs) : recs[j].competence_date # NullDate}}

PeriodLt(p, q) == p[1] < q[1] \/ (p[1] = q[1] /\ p[2] < q[2])

\* The periods taken from the latest to the earliest.
FirstPeriod_latest(ps) == CHOOSE p \in ps : \A q \in ps \ {p} : PeriodLt(q, p)

\* The next period of sorted(competences_to_delete) still to delete.
FirstPeriod(ps) == CHOOSE p \in ps : \A q \in ps \ {p} : PeriodLt(p, q)

MonthStart(p) == <<p[1], p[2], 1>>

\* January of the same year after December.
NextMonthStart_sameyear(p) ==
    IF p[2] = 12 THEN <<p[1], 1, 1>> ELSE <<p[1], p[2] + 1, 1>>

NextMonthStart(p) ==
    IF p[2] = 12 THEN <<p[1] + 1, 1, 1>> ELSE <<p[1], p[2] + 1, 1>>

\* gt in place of gte: the first day of the month escapes the delete.
PeriodFilter_gt(e, account_id, p) ==
    /\ e.account_id = account_id
    /\ e.competence_date # NullDate
    /\ DateLt(MonthStart(p), e.competence_date)
    /\ DateLt(e.competence_date, NextMonthStart(p))

\* The upper end of the range left out.
PeriodFilter_open(e, account_id, p) ==
    /\ e.account_id = account_id
    /\ e.competence_date # NullDate
    /\ DateGe(e.competence_date, MonthStart(p))

\* The account left out of the filter.
PeriodFilter_anyaccount(e, account_id, p) ==
    /\ e.competence_date # NullDate
    /\ DateGe(e.competence_date, MonthStart(p))
    /\ DateLt(e.competence_date, NextMonthStart(p))

\* .eq('account_id', account_id).gte('competence_date', month_start)
\* .lt('competence_date', next_month_start): a null date matches no range.
PeriodFilter(e, account_id, p) ==
    /\ e.account_id = account_id
    /\ e.competence_date # NullDate
    /\ DateGe(e.competence_date, MonthStart(p))
    /\ DateLt(e.competence_date, NextMonthStart(p))

\* .eq('received_file_id', file_id)
FileFilter(e, file_id) == e.received_file_id = file_id

\* ------------------------------------------------------------ batch persister

\* unique_records[start:start + batch_size], with first the value of start.
Batch(recs, first) == SubSeq(recs, first + 1, Min(first + BatchSize, Len(recs)))

\* upsert(batch, on_conflict='id'): a stored row of the same id is replaced.
Upsert(st, batch) ==
    LET ids == {batch[i].id : i \in 1..Len(batch)}
    IN  {e \in st : e.id \notin ids} \cup SeqToSet(batch)

\* ------------------------------------------------------------ status reporter

\* What an exception says, str(e): one short line, or a first line longer
\* than the message limit followed by a second line.
ShortExc == <<[tag |-> <<"exc_short">>, len |-> 40]>>
LongExc == <<[tag |-> <<"exc_long">>, len |-> 300], [tag |-> <<"exc_more">>, len |-> 20]>>
ExcTexts == {ShortExc, LongExc}

\* line[:k]
Truncate(line, k) ==
    IF line.len <= k THEN line ELSE [tag |-> line.tag \o <<"cut">>, len |-> k]

\* The details without the traceback: the error message alone.
FatalDetails_notrace(e) ==
    <<[tag |-> <<"Erro fatal no processamento: ">> \o e[1].tag,
       len |-> FatalPrefixLen + e[1].len]>>
    \o Tail(e)

\* f"Erro fatal no processamento: {e}\n\nTraceback:\n{tb_str}"
FatalDetails(e) ==
    <<[tag |-> <<"Erro fatal no processamento: ">> \o e[1].tag,
       len |-> FatalPrefixLen + e[1].len]>>
    \o Tail(e)
    \o <<[tag |-> <<"">>, len |-> 0],
         [tag |-> <<"Traceback:">>, len |-> 10],
         [tag |-> <<"tb_str">> \o e[1].tag, len |-> 60]>>

\* 'O arquivo Excel está vazio ou não contém dados na segunda aba.'
EmptyDetails == <<[tag |-> <<"O arquivo Excel esta vazio">>, len |-> EmptyMsgLen]>>

\* short_msg = details.splitlines()[0][:250] if details else None
ShortMsg(details) ==
    IF details = NullText THEN NullLine ELSE Truncate(details[1], MsgLimit)

\* The processed branch sets processed_at and leaves the error columns.
UpdateData_keeperrors(cur, status, details, now) ==
    CASE status \in {"pending", "processing"} ->
            [status |-> status, processed_at |-> 0,
             error_message |-> NullLine, error_details |-> NullText]
      [] status = "processed" ->
            [cur EXCEPT !.status = status, !.processed_at = now]
      [] status = "error" ->
            [status |-> status, processed_at |-> 0,
             error_message |-> ShortMsg(details), error_details |-> details]
      [] OTHER -> [cur EXCEPT !.status = status]

\* The error branch forgets the status column.
UpdateData_nostatus(cur, status, details, now) ==
    CASE status \in {"pending", "processing"} ->
            [status |-> status, processed_at |-> 0,
             error_message |-> NullLine, error_details |-> NullText]
      [] status = "processed" ->
            [status |-> status, processed_at |-> now,
             error_message |-> NullLine, error_details |-> NullText]
      [] OTHER ->
            [cur EXCEPT !.processed_at = 0, !.error_message = ShortMsg(details),
                        !.error_details = details]

\* update_data of update_file_status, merged into the file's record.
UpdateData(cur, status, details, now) ==
    CASE status \in {"pending", "processing"} ->
            [status |-> status, processed_at |-> 0,
             error_message |-> NullLine, error_details |-> NullText]
      [] status = "processed" ->
            [status |-> status, processed_at |-> now,
             error_message |-> NullLine, error_details |-> NullText]
      [] status = "error" ->
            [status |-> status, processed_at |-> 0,
             error_message |-> ShortMsg(details), error_details |-> details]
      [] OTHER -> [cur EXCEPT !.status = status]

\* update_file_status lets the failure of its write out.
AfterStatusWrite_raise(ok, next) == IF ok THEN next ELSE "st_error_fatal"

\* update_file_status swallows the failure of its write (except Exception:
\* log): the caller goes on to its next statement either way.
AfterStatusWrite(ok, next) == next

\* A failed delete raised to process_conciliation_file.
AfterDelete_raise(ok, next) == IF ok THEN next ELSE "st_error_fatal"

\* Both deletes are wrapped in try/except that logs a warning and goes on.
AfterDelete(ok, next) == next

\* range(0, len(unique_records), batch_size) is empty without records: the
\* batch loop is skipped.
BatchLoop(recs) == IF Len(recs) = 0 THEN "st_processed" ELSE "upsert"

\* The test of df.empty left out: an empty dataframe goes on to be saved.
AfterRead_saveempty(i) ==
    IF ReadRaises(i) THEN "st_error_fatal" ELSE "delete_file"

\* read_and_clean_data raises to the except clause; an empty dataframe goes
\* to the else branch; any other is saved.
AfterRead(i) ==
    IF ReadRaises(i) THEN "st_error_fatal"
    ELSE IF i.file_path.n = 0 THEN "st_error_empty"
    ELSE "delete_file"

\* A failed upsert logged and skipped.
AfterUpsert_swallow(ok, next) == next

\* A failed upsert is logged and re-raised to process_conciliation_file,
\* whose except clause reports it.
AfterUpsert(ok, next) == IF ok THEN next ELSE "st_error_fatal"

\* A handler that puts the file back in line instead of reporting the error.
ExceptStatus_requeue == "processing"

\* The status process_conciliation_file's except clause writes.
ExceptStatus == "error"

NoPeriod == <<0, 0>>
NoInput ==
    [file_path |-> BadFile, file_id |-> "none", account_id |-> "none", layout_hint |-> None]
NoRun ==
    [inp |-> NoInput, ops |-> <<>>, failed |-> {}, ids |-> {}, store0 |-> {}, killed |-> FALSE]

\* "crash": up to three calls for one account, of which the first is on
\* another file (or on an empty or unreadable one) and the later ones on a
\* file of two batches or of two rows; upserts fail and the process may be
\* killed between two calls to the store.
CrashInputs ==
    IF clock = 0
    THEN {[file_path |-> EmptyFile, file_id |-> "f1", account_id |-> "acc1", layout_hint |-> None],
          [file_path |-> BadFile, file_id |-> "f1", account_id |-> "acc1", layout_hint |-> None],
          [file_path |-> JuneOther, file_id |-> "f2", account_id |-> "acc1", layout_hint |-> None]}
    ELSE [file_path : {Sized(BatchSize + 1), JuneDup},
          file_id : {"f1"}, account_id : {"acc1"}, layout_hint : {None}]

\* "conc": two calls that run at the same time, each on the empty file, the
\* unreadable one or one of two files with rows of June, under either file
\* id and either account, or on the file of two batches under the first file
\* id and account; no call to the store fails.
ConcInputs ==
    [file_path : {BadFile, EmptyFile, JuneDup, JuneOther},
     file_id : FileIds, account_id : Accounts, layout_hint : {None}]
    \cup [file_path : {Sized(BatchSize + 1)},
          file_id : {"f1"}, account_id : {"acc1"}, layout_hint : {None}]

\* "status": calls on one file id for one account, on the empty file, the
\* unreadable one, the file of two rows or the file of two batches; every
\* status write may fail and one upsert of a call may fail.
StatusInputs ==
    [file_path : {BadFile, EmptyFile, JuneDup, Sized(BatchSize + 1)},
     file_id : {"f1"}, account_id : {"acc1"}, layout_hint : {None}]

Inputs ==
    CASE scenario = "faults" -> FaultInputs
      [] scenario = "status" -> StatusInputs
      [] scenario = "store" -> StoreInputs
      [] scenario = "batch" -> BatchInputs
      [] scenario = "crash" -> CrashInputs
      [] scenario = "conc" -> ConcInputs
      [] OTHER -> ContentInputs

PendingFile ==
    [status |-> "pending", processed_at |-> 0,
     error_message |-> NullLine, error_details |-> NullText]

\* One call to the file system or the store, as the caller issued it.
Op(r, name, status, period, k) ==
    [op |-> name, file_id |-> inp[r].file_id, account_id |-> inp[r].account_id,
     status |-> status, period |-> period, start |-> k]

Ids(recs) == {recs[i].id : i \in 1..Len(recs)}

\* What is kept of a call that has returned, or whose process was killed.
Summary(r) ==
    [inp |-> inp[r], ops |-> ops[r], failed |-> failed[r], ids |-> Ids(records[r]),
     store0 |-> store0[r], killed |-> pc[r] = "crashed"]

InitState ==
    /\ store = {}
    /\ files = [f \in FileIds |-> PendingFile]
    /\ clock = 0
    /\ prev = NoRun
    /\ pc = [r \in Procs |-> "idle"]
    /\ inp = [r \in Procs |-> NoInput]
    /\ layout = [r \in Procs |-> None]
    /\ frame = [r \in Procs |-> NoFrame]
    /\ records = [r \in Procs |-> <<>>]
    /\ todo = [r \in Procs |-> {}]
    /\ start = [r \in Procs |-> 0]
    /\ exc = [r \in Procs |-> NullText]
    /\ ops = [r \in Procs |-> <<>>]
    /\ failed = [r \in Procs |-> {}]
    /\ store0 = [r \in Procs |-> {}]

Init == scenario = "faults" /\ InitState

InitStore == scenario = "store" /\ InitState

InitBatch == scenario = "batch" /\ InitState

InitContent == scenario = "content" /\ InitState

InitCrash == scenario = "crash" /\ InitState

InitStatus == scenario = "status" /\ InitState

InitConc == scenario = "conc" /\ InitState

\* A call of this kind to the store may fail while the run's fault budget lasts.
Outcomes(r, kind) ==
    LET may == CASE scenario = "faults" -> Cardinality(failed[r]) < MaxFaults
                 [] scenario = "content" ->
                        kind = "status" /\ Cardinality(failed[r]) < MaxStoreFaults
                 [] scenario = "crash" ->
                        kind = "upsert" /\ Cardinality(failed[r]) < MaxStoreFaults
                 [] scenario = "conc" -> FALSE
                 [] scenario = "status" ->
                        \/ kind = "status"
                        \/ kind = "upsert" /\ \A i \in failed[r] : ops[r][i].op # "upsert"
                 [] OTHER -> kind # "status" /\ Cardinality(failed[r]) < MaxStoreFaults
    IN  IF may THEN {TRUE, FALSE} ELSE {TRUE}

\* The client serializes the batch to JSON before it sends it, which fails
\* on a record with a field that is not null, a text or a finite number.
Serializable(batch) ==
    \A i \in 1..Len(batch) : \A v \in {batch[i].extra} \cup SeqToSet(batch[i].key) :
        v[1] \in {"none", "str", "float"}

\* What the exception of a failed call may say.
Texts == IF scenario = "faults" THEN ExcTexts ELSE {ShortExc}

\* The call op is logged; a failed one is marked.
Logged(r, op, ok) ==
    /\ ops' = [ops EXCEPT ![r] = Append(@, op)]
    /\ failed' = [failed EXCEPT ![r] = IF ok THEN @ ELSE @ \cup {Len(ops[r]) + 1}]

\* The exception in flight is e when control reaches the except clause.
Raised(r, e) ==
    exc' = [exc EXCEPT ![r] = IF pc'[r] = "st_error_fatal" THEN e ELSE @]

\* update_file_status(file_id, status, details), then go on at next.
WriteStatus(r, status, details, next) ==
    \E ok \in Outcomes(r, "status") : \E e \in Texts :
        /\ files' = IF ok
                    THEN [files EXCEPT ![inp[r].file_id] =
                              UpdateData(@, status, details, clock)]
                    ELSE files
        /\ pc' = [pc EXCEPT ![r] = AfterStatusWrite(ok, next)]
        /\ Raised(r, e)
        /\ Logged(r, Op(r, "status", status, NoPeriod, 0), ok)
        /\ UNCHANGED <<scenario, store, clock, prev, inp, layout, frame, records, todo, start,
                       store0>>

\* process_conciliation_file is called. In "conc" each process makes one
\* call, whatever the other one is doing. Elsewhere no other call is running:
\* the calls are made by the first process until it is killed and by the
\* second one from then on.
Start(r) ==
    /\ IF scenario = "conc"
       THEN pc[r] = "idle"
       ELSE /\ pc[r] \in {"idle", "done"}
            /\ \A q \in Procs \ {r} : pc[q] \in {"idle", "done", "crashed"}
            /\ r = 1 \/ pc[1] = "crashed"
    /\ clock < (CASE scenario = "content" -> 1
                  [] scenario = "crash" -> MaxRuns + 1
                  [] OTHER -> MaxRuns)
    /\ \E i \in Inputs : inp' = [inp EXCEPT ![r] = i]
    /\ prev' = IF pc[r] = "done" THEN Summary(r)
               ELSE IF scenario # "conc" /\ r # 1 THEN Summary(1)
               ELSE prev
    /\ clock' = clock + 1
    /\ pc' = [pc EXCEPT ![r] = "st_processing"]
    /\ layout' = [layout EXCEPT ![r] = None]
    /\ frame' = [frame EXCEPT ![r] = NoFrame]
    /\ records' = [records EXCEPT ![r] = <<>>]
    /\ todo' = [todo EXCEPT ![r] = {}]
    /\ start' = [start EXCEPT ![r] = 0]
    /\ exc' = [exc EXCEPT ![r] = NullText]
    /\ ops' = [ops EXCEPT ![r] = <<>>]
    /\ failed' = [failed EXCEPT ![r] = {}]
    /\ store0' = [store0 EXCEPT ![r] = store]
    /\ UNCHANGED <<scenario, store, files>>

\* update_file_status(..., 'processing')
StatusProcessing(r) ==
    /\ pc[r] = "st_processing"
    /\ WriteStatus(r, "processing", NullText, "read")

\* read_and_clean_data: raises on a file it cannot read, else detects the
\* layout from the columns and the hint; then the test of df.empty.
ReadAndClean(r) ==
    /\ pc[r] = "read"
    /\ \E e \in Texts :
        /\ pc' = [pc EXCEPT ![r] = AfterRead(inp[r])]
        /\ Raised(r, e)
    /\ layout' = [layout EXCEPT ![r] =
            IF ReadRaises(inp[r]) THEN @
            ELSE DetectLayout(inp[r].file_path.columns, inp[r].layout_hint)]
    /\ frame' = [frame EXCEPT ![r] = Frame(inp[r], layout'[r])]
    /\ Logged(r, Op(r, "read", "", NoPeriod, 0), TRUE)
    /\ UNCHANGED <<scenario, store, files, clock, prev, inp, records, todo, start, store0>>

\* save_data_in_batches up to the period loop: the file-scoped delete, then
\* the records, their ids and the periods to delete.
DeleteFile(r) ==
    /\ pc[r] = "delete_file"
    /\ LET unique_records ==
               UniqueRecords(RecordsToInsert(
                   WithLayoutVersion(DataFrame(inp[r].file_path), layout[r]),
                   inp[r].account_id, inp[r].file_id))
           competences_to_delete == Competences(unique_records)
       IN \E ok \in Outcomes(r, "delete") : \E e \in Texts :
            /\ store' = IF ok THEN {x \in store : ~FileFilter(x, inp[r].file_id)}
                              ELSE store
            /\ records' = [records EXCEPT ![r] = unique_records]
            /\ todo' = [todo EXCEPT ![r] = competences_to_delete]
            /\ pc' = [pc EXCEPT ![r] =
                    AfterDelete(ok, IF competences_to_delete = {}
                                    THEN BatchLoop(unique_records)
                                    ELSE "delete_period")]
            /\ Raised(r, e)
            /\ Logged(r, Op(r, "delete_file", "", NoPeriod, 0), ok)
    /\ UNCHANGED <<scenario, files, clock, prev, inp, layout, frame, start, store0>>

\* One turn of the loop over sorted(competences_to_delete).
DeletePeriod(r) ==
    /\ pc[r] = "delete_period"
    /\ LET p == FirstPeriod(todo[r])
           kept == {x \in store : ~PeriodFilter(x, inp[r].account_id, p)}
       IN \E ok \in Outcomes(r, "delete") : \E e \in Texts :
            /\ store' = IF ok THEN kept ELSE store
            /\ todo' = [todo EXCEPT ![r] = @ \ {p}]
            /\ pc' = [pc EXCEPT ![r] =
                    AfterDelete(ok, IF todo'[r] = {} THEN BatchLoop(records[r])
                                                     ELSE "delete_period")]
            /\ Raised(r, e)
            /\ Logged(r, Op(r, "delete_period", "", p, 0), ok)
    /\ UNCHANGED <<scenario, files, clock, prev, inp, layout, frame, records, start, store0>>

\* One turn of the batch loop.
UpsertBatch(r) ==
    /\ pc[r] = "upsert"
    /\ LET batch == Batch(records[r], start[r])
           upserted == Upsert(store, batch)
           outcomes == IF Serializable(batch) THEN Outcomes(r, "upsert") ELSE {FALSE}
       IN \E ok \in outcomes : \E e \in Texts :
            /\ store' = IF ok THEN upserted ELSE store
            /\ pc' = [pc EXCEPT ![r] =
                    AfterUpsert(ok, IF start[r] + BatchSize < Len(records[r])
                                    THEN "upsert" ELSE "st_processed")]
            /\ start' = [start EXCEPT ![r] =
                    IF pc'[r] = "st_error_fatal" THEN @ ELSE @ + BatchSize]
            /\ Raised(r, e)
            /\ Logged(r, Op(r, "upsert", "", NoPeriod, start[r]), ok)
    /\ UNCHANGED <<scenario, files, clock, prev, inp, layout, frame, records, todo, store0>>

\* update_file_status(..., 'processed') after save_data_in_batches returned.
StatusProcessed(r) ==
    /\ pc[r] = "st_processed"
    /\ WriteStatus(r, "processed", NullText, "done")

\* update_file_status(..., 'error', <empty file>) when the dataframe is empty.
StatusErrorEmpty(r) ==
    /\ pc[r] = "st_error_empty"
    /\ WriteStatus(r, "error", EmptyDetails, "done")

\* The except clause: update_file_status(..., 'error', details).
StatusErrorFatal(r) ==
    /\ pc[r] = "st_error_fatal"
    /\ WriteStatus(r, ExceptStatus, FatalDetails(exc[r]), "done")

\* The process is killed in the middle of a call, between two calls to the
\* store: nothing more of the call happens, no except clause runs.
Crash(r) ==
    /\ pc[r] \in {"read", "delete_file", "delete_period", "upsert", "st_processed",
                 "st_error_empty", "st_error_fatal"}
    /\ pc' = [pc EXCEPT ![r] = "crashed"]
    /\ UNCHANGED <<scenario, store, files, clock, prev, inp, layout, frame, records, todo,
                   start, exc, ops, failed, store0>>

Next ==
    \E r \in Procs :
        \/ Start(r)
        \/ StatusProcessing(r)
        \/ ReadAndClean(r)
        \/ DeleteFile(r)
        \/ DeletePeriod(r)
        \/ UpsertBatch(r)
        \/ StatusProcessed(r)
        \/ StatusErrorEmpty(r)
        \/ StatusErrorFatal(r)

Spec == Init /\ [][Next]_vars

SpecStore == InitStore /\ [][Next]_vars

SpecBatch == InitBatch /\ [][Next]_vars

SpecContent == InitContent /\ [][Next]_vars

\* The calls, and the process killed in the middle of one.
SpecCrash == InitCrash /\ [][Next \/ \E r \in Procs : Crash(r)]_vars

SpecConc == InitConc /\ [][Next]_vars

SpecStatus == InitStatus /\ [][Next]_vars

\* ------------------------------------------------------- reading the state

\* The run r has returned from process_conciliation_file.
Returned(r) == pc[r] = "done"

\* The status record of the file the run r processes.
FileOf(r) == files[inp[r].file_id]

\* Places in a log o of the calls of kind k.
Places(o, k) == {i \in 1..Len(o) : o[i].op = k}

\* The failed calls of a log that are not status writes, as issued.
FailedStoreCalls(o, f) == {o[i] : i \in {j \in f : o[j].op # "status"}}

\* The status writes of the run r that failed.
FailedStatusWrites(r) == failed[r] \cap Places(ops[r], "status")

\* The last call of log o is a status write of s.
EndsWith(o, s) == o # <<>> /\ o[Len(o)].op = "status" /\ o[Len(o)].status = s

\* The year-month periods of the competence dates of a file's rows.
FilePeriods(f) ==
    {<<d[1], d[2]>> : d \in {x.competence_date : x \in SeqToSet(DataFrame(f))} \ {NullDate}}

\* The entry e has a competence date in year-month p.
InMonth(e, p) ==
    e.competence_date # NullDate /\ e.competence_date[1] = p[1] /\ e.competence_date[2] = p[2]

\* The entries the run r produces from its file.
Produced(r) == SeqToSet(records[r])

\* The cleaned row an entry was made from.
RowOf(e) == Row(e.competence_date, e.key, e.extra)

\* The natural keys of a file's rows, in row order.
NaturalKeys(f) ==
    LET df == DataFrame(f)
    IN  [i \in 1..f.n |-> NaturalBasis(df[i])]

\* The failed calls of kind k of the run r, as places in its log.
FailedAt(r, k) == failed[r] \cap Places(ops[r], k)

\* The failed deletes of the run r, file-scoped or period-scoped.
FailedDeletes(r) == FailedAt(r, "delete_file") \cup FailedAt(r, "delete_period")

\* The last status write of the run r succeeded.
LastWriteDone(r) == ops[r] # <<>> /\ Len(ops[r]) \notin failed[r]

\* The starts of the batches of n records.
BatchStarts(n) == {k * BatchSize : k \in 0..((n - 1) \div BatchSize)}

\* No stored entry matches the filter of the delete call o.
Deleted(o) ==
    \A e \in store :
        IF o.op = "delete_file"
        THEN e.received_file_id # o.file_id
        ELSE ~(e.account_id = o.account_id /\ InMonth(e, o.period))

\* The run r, or the summary of a run, ended by writing processed: every
\* batch was upserted.
Completed(o) == EndsWith(o, "processed")

\* The batches the run r sent, in call order.
BatchesSent(r) ==
    LET P == Places(ops[r], "upsert")
        nth(k) == CHOOSE i \in P : Cardinality({j \in P : j < i}) = k - 1
    IN  [k \in 1..Cardinality(P) |-> Batch(records[r], ops[r][nth(k)].start)]

\* The sequences of ss, one after the other.
RECURSIVE Flatten(_)
Flatten(ss) == IF ss = <<>> THEN <<>> ELSE Head(ss) \o Flatten(Tail(ss))

\* The last status write of the run r that succeeded, as a place in its log
\* (0 when none did).
LastDone(r) ==
    LET S == Places(ops[r], "status") \ failed[r]
    IN  IF S = {} THEN 0 ELSE CHOOSE i \in S : \A j \in S : j <= i

\* The details the run r passes with status error.
ErrorDetails(r) ==
    IF exc[r] = NullText THEN EmptyDetails ELSE FatalDetails(exc[r])

\* read_and_clean_data of the run r raised.
ReadFailed(r) == Places(ops[r], "read") # {} /\ ReadRaises(inp[r])

\* ------------------------------------------------------------------ claims

\* C1: when process_conciliation_file has returned and none of its status
\* writes failed, the file's status is processed or error, whichever of the
\* read, the cleaning to zero rows, the file-scoped delete, a period-scoped
\* delete or a batch upsert failed.
C1_TerminalStatus ==
    \A r \in Procs :
        (Returned(r) /\ FailedStatusWrites(r) = {})
            => FileOf(r).status \in {"processed", "error"}

\* C1 witness: a run returned after a failed delete and a failed upsert,
\* with both status writes done, and the file is in error.
C1_Witness ==
    \E r \in Procs :
        /\ Returned(r)
        /\ FailedStatusWrites(r) = {}
        /\ \E i, j \in failed[r] :
              ops[r][i].op = "delete_period" /\ ops[r][j].op = "upsert"
        /\ FileOf(r).status = "error"

\* C2: a run of the same file id, account and content as the run before it,
\* both without any failed call and both ending in processed, leaves the
\* store exactly as it found it: the same entries with the same ids and
\* fields, hence the same count.
C2_IdempotentReprocessing ==
    \A r \in Procs :
        (/\ Returned(r) /\ failed[r] = {} /\ Completed(ops[r])
         /\ prev.inp = inp[r] /\ prev.failed = {} /\ Completed(prev.ops))
            => /\ store = store0[r]
               /\ Cardinality(store) = Cardinality(store0[r])

\* C2 witness: the three-batch file reprocessed, its entries all stored.
C2_Witness ==
    \E r \in Procs :
        /\ Returned(r) /\ failed[r] = {} /\ Completed(ops[r])
        /\ prev.inp = inp[r] /\ prev.failed = {} /\ Completed(prev.ops)
        /\ inp[r].file_path = BigFile
        /\ Cardinality(store) = BigRows
        /\ Places(ops[r], "upsert") # {}

\* C3: after a run that completed with no failed delete and no failed
\* upsert, for every year-month of the file's competence dates the stored
\* entries of the run's account in that month are exactly the entries the
\* run produced for it.
C3_PeriodHoldsLatestUpload ==
    \A r \in Procs :
        (Returned(r) /\ failed[r] = {} /\ Completed(ops[r]))
            => \A p \in FilePeriods(inp[r].file_path) :
                 {e \in store : e.account_id = inp[r].account_id /\ InMonth(e, p)}
                    = {x \in Produced(r) : InMonth(x, p)}

\* C3 witness: the run removed an entry that another file had stored for
\* the same account and month.
C3_Witness ==
    \E r \in Procs :
        /\ Returned(r) /\ failed[r] = {} /\ Completed(ops[r])
        /\ \E p \in FilePeriods(inp[r].file_path) : \E e \in store0[r] \ store :
              /\ e.account_id = inp[r].account_id
              /\ e.received_file_id # inp[r].file_id
              /\ InMonth(e, p)
        /\ \E e \in store : e.received_file_id = inp[r].file_id

C5_DuplicateUploadStoredOnce ==
    \A r \in Procs :
        (/\ Returned(r) /\ Completed(ops[r]) /\ Completed(prev.ops)
         /\ prev.inp.account_id = inp[r].account_id
         /\ prev.inp.file_path = inp[r].file_path
         /\ prev.inp.file_id # inp[r].file_id)
            => LET df == DataFrame(inp[r].file_path)
                   held(i) == {e \in store : /\ e.account_id = inp[r].account_id
                                             /\ e.id[3] = i - 1
                                             /\ RowOf(e) = df[i]}
               IN  /\ \A i \in 1..Len(df) : Cardinality(held(i)) = 1
                   /\ Cardinality(UNION {held(i) : i \in 1..Len(df)}) = Len(df)

\* C5 witness: the second upload's period delete failed and the content has
\* a row without competence date; the rows are still stored once.
C5_Witness ==
    \E r \in Procs :
        /\ Returned(r) /\ Completed(ops[r]) /\ Completed(prev.ops)
        /\ prev.inp.account_id = inp[r].account_id
        /\ prev.inp.file_path = inp[r].file_path
        /\ prev.inp.file_id # inp[r].file_id
        /\ \E i \in failed[r] : ops[r][i].op = "delete_period"
        /\ \E e \in store : e.competence_date = NullDate
        /\ Cardinality(store) = inp[r].file_path.n

\* C6: two runs for the same account on files with the same natural-key
\* values row by row compute the same set of ids, whatever the file ids,
\* the other fields, the time and the store.
C6_IdsDeterministic ==
    \A r \in Procs :
        (/\ records[r] # <<>> /\ prev.ids # {}
         /\ prev.inp.account_id = inp[r].account_id
         /\ NaturalKeys(prev.inp.file_path) = NaturalKeys(inp[r].file_path))
            => Ids(records[r]) = prev.ids

\* C6 witness: the same rows with another value outside the natural key,
\* under another file id, on a store the first run filled.
C6_Witness ==
    \E r \in Procs :
        /\ records[r] # <<>> /\ prev.ids # {}
        /\ prev.inp.account_id = inp[r].account_id
        /\ prev.inp.file_path = JuneDup /\ inp[r].file_path = JuneDupX
        /\ prev.inp.file_id # inp[r].file_id
        /\ store0[r] # {}
        /\ Ids(records[r]) = prev.ids

\* C7 as claimed: when a batch upsert failed, the file's status is error
\* once the run has returned.
C7_Original ==
    \A r \in Procs :
        (Returned(r) /\ FailedAt(r, "upsert") # {}) => FileOf(r).status = "error"

\* C7, amended: a failed batch upsert ends the run's work on the store: the
\* exception is in the orchestrator's hands, no call follows it but the
\* write of status error, processed is never written, the batches upserted
\* before it are in the store, and the file's status is error, with the
\* exception in its details, when that write succeeds.
C7_UpsertFailureAborts ==
    \A r \in Procs : \A i \in FailedAt(r, "upsert") :
        /\ pc[r] \in {"st_error_fatal", "done"}
        /\ exc[r] # NullText
        /\ \A j \in (i + 1)..Len(ops[r]) :
              ops[r][j].op = "status" /\ ops[r][j].status = "error"
        /\ \A j \in 1..i : ~(ops[r][j].op = "status" /\ ops[r][j].status = "processed")
        /\ \A j \in Places(ops[r], "upsert") \ {i} :
              /\ j < i
              /\ ops[r][j].start < ops[r][i].start
              /\ SeqToSet(Batch(records[r], ops[r][j].start)) \subseteq store
        /\ Returned(r) =>
              /\ Len(ops[r]) = i + 1
              /\ LastWriteDone(r) =>
                    /\ FileOf(r).status = "error"
                    /\ FileOf(r).error_details = FatalDetails(exc[r])

\* C7 witness: the third batch failed, the first two are stored, the run
\* returned and the file is in error.
C7_Witness ==
    \E r \in Procs : \E i \in FailedAt(r, "upsert") :
        /\ Returned(r)
        /\ ops[r][i].start = BatchSize + BatchSize
        /\ Cardinality(store) = BatchSize + BatchSize
        /\ FileOf(r).status = "error"

\* C8 as claimed: a run with a failed delete and no failed upsert ends with
\* the file's status processed.
C8_Original ==
    \A r \in Procs :
        (Returned(r) /\ FailedDeletes(r) # {} /\ FailedAt(r, "upsert") = {})
            => FileOf(r).status = "processed"

\* C8, amended: a failed delete does not abort the run. While no upsert has
\* failed the run is not in the except clause; until the first upsert the
\* store only shrinks and what the successful deletes removed stays removed;
\* once the batch loop is over, one delete per month of the file and one
\* upsert per batch were issued and the run's records are stored; the run
\* ends by writing processed, and the status is processed when that write
\* succeeds.
C8_DeleteFailureTolerated ==
    \A r \in Procs :
        (FailedDeletes(r) # {} /\ FailedAt(r, "upsert") = {}) =>
            /\ pc[r] \notin {"st_error_fatal", "st_error_empty"}
            /\ (pc[r] = "delete_period" \/ (pc[r] = "upsert" /\ start[r] = 0)) =>
                  /\ store \subseteq store0[r]
                  /\ \A j \in (Places(ops[r], "delete_file")
                                \cup Places(ops[r], "delete_period")) \ failed[r] :
                        Deleted(ops[r][j])
            /\ pc[r] \in {"st_processed", "done"} =>
                  /\ Cardinality(Places(ops[r], "delete_file")) = 1
                  /\ {ops[r][j].period : j \in Places(ops[r], "delete_period")}
                        = FilePeriods(inp[r].file_path)
                  /\ Cardinality(Places(ops[r], "delete_period"))
                        = Cardinality(FilePeriods(inp[r].file_path))
                  /\ {ops[r][j].start : j \in Places(ops[r], "upsert")}
                        = BatchStarts(inp[r].file_path.n)
                  /\ Produced(r) \subseteq store
                  /\ Cardinality(Produced(r)) = inp[r].file_path.n
            /\ Returned(r) =>
                  /\ Completed(ops[r])
                  /\ LastWriteDone(r) => FileOf(r).status = "processed"

\* C8 witness: the file-scoped delete and the first of four period deletes
\* failed; the other three were issued, the rows are stored and the file is
\* processed.
C8_Witness ==
    \E r \in Procs :
        /\ Returned(r)
        /\ FailedAt(r, "delete_file") # {}
        /\ \E i \in FailedAt(r, "delete_period") : ops[r][i].period = <<2024, 5>>
        /\ inp[r].file_path = Around
        /\ Cardinality(Places(ops[r], "delete_period")) = Len(Around.pat)
        /\ Produced(r) \subseteq store
        /\ FileOf(r).status = "processed"

\* C9 as claimed: whenever process_conciliation_file has returned, the
\* file's status is processed or error, whichever call failed.
C9_Original ==
    \A r \in Procs : Returned(r) => FileOf(r).status \in {"processed", "error"}

\* C9, amended: whenever process_conciliation_file has returned and its last
\* status write succeeded, the file's status is processed or error,
\* whichever other call failed, the write of processing included; when the
\* last write failed after a successful write of processing, the status is
\* left at processing.
C9_TerminalUnlessWriteFails ==
    \A r \in Procs :
        Returned(r) =>
            /\ LastWriteDone(r) => FileOf(r).status \in {"processed", "error"}
            /\ (~LastWriteDone(r) /\ 1 \notin failed[r]) => FileOf(r).status = "processing"

\* C9 witness: the write of processing and an upsert failed, the write of
\* error succeeded.
C9_Witness ==
    \E r \in Procs :
        /\ Returned(r)
        /\ 1 \in failed[r]
        /\ FailedAt(r, "upsert") # {}
        /\ LastWriteDone(r)
        /\ FileOf(r).status = "error"

\* C10: two runs on the same input in which the same reads, deletes and
\* upserts failed made the same calls in the same order, status writes
\* included, whichever of their status writes failed.
C10_StatusWriteFailureChangesNothing ==
    \A r \in Procs :
        (/\ Returned(r)
         /\ prev.inp = inp[r]
         /\ FailedStoreCalls(prev.ops, prev.failed) = FailedStoreCalls(ops[r], failed[r]))
            => prev.ops = ops[r]

\* C10 witness: the first run lost its write of processing and a delete,
\* the second only the same delete; both went through the batches.
C10_Witness ==
    \E r \in Procs :
        /\ Returned(r)
        /\ prev.inp = inp[r]
        /\ FailedStoreCalls(prev.ops, prev.failed) = FailedStoreCalls(ops[r], failed[r])
        /\ FailedDeletes(r) # {}
        /\ 1 \in prev.failed
        /\ FailedAt(r, "status") = {}
        /\ Places(ops[r], "upsert") # {}
        /\ prev.ops = ops[r]

\* C11 as claimed: once the run has returned, a failure raised while reading,
\* deleting or upserting has been reported: the file's status is error, its
\* error_details the full text with the trace and its error_message the
\* first line of it cut to the limit.
C11_Original ==
    \A r \in Procs :
        (Returned(r) /\ (ReadFailed(r) \/ FailedDeletes(r) # {} \/ FailedAt(r, "upsert") # {}))
            => /\ FileOf(r).status = "error"
               /\ exc[r] # NullText
               /\ FileOf(r).error_details = FatalDetails(exc[r])
               /\ FileOf(r).error_message = Truncate(FileOf(r).error_details[1], MsgLimit)

\* C11, amended: a failure raised while reading or upserting is in the hands
\* of the except clause of process_conciliation_file, which ends the run by
\* one write of status error; when that write succeeds the file's
\* error_details is the message line, the rest of the exception text and the
\* trace, and its error_message is the first line cut to 250 characters. A
\* failure raised while deleting never reaches the except clause. Every run
\* returns: no call is left anywhere but in one of the steps of the function.
C11_FailuresReported ==
    \A r \in Procs :
        /\ (ReadFailed(r) \/ FailedAt(r, "upsert") # {}) =>
              /\ pc[r] \in {"st_error_fatal", "done"}
              /\ exc[r] # NullText
              /\ Returned(r) =>
                    /\ EndsWith(ops[r], "error")
                    /\ Cardinality(Places(ops[r], "status")) = 2
                    /\ LastWriteDone(r) =>
                          LET f == FileOf(r)
                              d == f.error_details
                          IN  /\ f.status = "error"
                              /\ d[1].len = FatalPrefixLen + exc[r][1].len
                              /\ SubSeq(d, 2, Len(exc[r])) = Tail(exc[r])
                              /\ Len(d) = Len(exc[r]) + 3
                              /\ d[Len(d) - 1].tag = <<"Traceback:">>
                              /\ d[Len(d)].tag[1] = "tb_str"
                              /\ f.error_message.len <= MsgLimit
                              /\ f.error_message.len = Min(d[1].len, MsgLimit)
                              /\ f.error_message.tag[1] = d[1].tag[1]
        /\ (FailedDeletes(r) # {} /\ FailedAt(r, "upsert") = {}) =>
              /\ pc[r] # "st_error_fatal"
              /\ exc[r] = NullText
              /\ ~EndsWith(ops[r], "error")
        /\ pc[r] \in {"idle", "st_processing", "read", "delete_file", "delete_period",
                      "upsert", "st_processed", "st_error_empty", "st_error_fatal", "done"}

\* C11 witness: an upsert failed with a long first line; the run returned
\* with the file in error and the message cut to the limit.
C11_Witness ==
    \E r \in Procs :
        /\ Returned(r)
        /\ FailedAt(r, "upsert") # {}
        /\ exc[r] = LongExc
        /\ FileOf(r).status = "error"
        /\ FileOf(r).error_details = FatalDetails(exc[r])
        /\ FileOf(r).error_message.len = MsgLimit

\* C12: in a run whose upserts all succeeded and whose batch loop is over,
\* the upsert calls are ceil(N / 100) for the N records to persist (none when
\* there is no record), every batch has between one and 100 records, and the
\* batches in call order, one after the other, are the records in their
\* order: none left out, none sent twice.
C12_BatchCompleteness ==
    \A r \in Procs :
        (pc[r] \in {"st_processed", "done"} /\ FailedAt(r, "upsert") = {}) =>
            LET sent == BatchesSent(r)
                N == Len(records[r])
            IN  /\ Len(sent) = (N + BatchSize - 1) \div BatchSize
                /\ \A k \in 1..Len(sent) : Len(sent[k]) \in 1..BatchSize
                /\ Flatten(sent) = records[r]
                /\ N = 0 => Places(ops[r], "upsert") = {}

\* C12 witness: two full batches and no third.
C12_Witness ==
    \E r \in Procs :
        /\ Returned(r) /\ FailedAt(r, "upsert") = {}
        /\ Len(records[r]) = BatchSize + BatchSize
        /\ Len(BatchesSent(r)) = 2
        /\ Cardinality(store) = BatchSize + BatchSize

\* C13: after a run that upserted every batch, the rows of its file that
\* have the same natural-key values are all stored, one entry per row, under
\* ids that differ from row to row and with one natural_hash; and all the
\* stored entries with those natural-key values, of whatever row, file or
\* account, have that same natural_hash. No row was dropped or merged: the
\* records are as many as the rows.
C13_DuplicateRowsKept ==
    \A r \in Procs :
        (Returned(r) /\ Completed(ops[r])) =>
            LET df == DataFrame(inp[r].file_path)
                rows(b) == {i \in 1..Len(df) : NaturalBasis(df[i]) = b}
            IN  /\ Len(records[r]) = Len(df)
                /\ \A b \in {NaturalBasis(df[i]) : i \in 1..Len(df)} :
                      /\ \A i \in rows(b) :
                            /\ RowOf(records[r][i]) = df[i]
                            /\ records[r][i] \in store
                      /\ Cardinality({records[r][i] : i \in rows(b)}) = Cardinality(rows(b))
                      /\ Cardinality({records[r][i].id : i \in rows(b)}) = Cardinality(rows(b))
                      /\ Cardinality({e.natural_hash :
                               e \in {x \in store : NaturalBasis(RowOf(x)) = b}}) = 1

\* C13 witness: the file of two identical rows stored for two accounts under
\* two file ids: four entries, four ids, one natural_hash.
C13_Witness ==
    \E r \in Procs :
        /\ Returned(r) /\ Completed(ops[r])
        /\ inp[r].file_path = JuneDup
        /\ prev.inp.file_path = JuneDup
        /\ prev.inp.account_id # inp[r].account_id
        /\ prev.inp.file_id # inp[r].file_id
        /\ Cardinality(store) = 4
        /\ Cardinality({e.id : e \in store}) = 4
        /\ Cardinality({e.natural_hash : e \in store}) = 1

\* C17: every file's auxiliary fields match its status: pending or processing
\* have processed_at, error_message and error_details null; processed has
\* processed_at set and both error fields null; error has processed_at null.
\* So processed_at is set exactly when the status is processed. And after a
\* run's status write that succeeded, the file holds what that write says:
\* processed with the time of the write, or error with the whole detail text
\* and, as message, its first line cut to at most 250 characters.
C17_AuxiliaryFieldsMatch ==
    /\ \A f \in FileIds :
          /\ files[f].status \in {"pending", "processing", "processed", "error"}
          /\ files[f].status \in {"pending", "processing", "processed"} =>
                files[f].error_message = NullLine /\ files[f].error_details = NullText
          /\ (files[f].processed_at # 0) <=> (files[f].status = "processed")
          /\ files[f].status = "error" =>
                /\ files[f].error_details # NullText
                /\ files[f].error_message.len = Min(files[f].error_details[1].len, MsgLimit)
                /\ files[f].error_message.tag[1] = files[f].error_details[1].tag[1]
    /\ \A r \in Procs :
          LastDone(r) # 0 =>
              LET op == ops[r][LastDone(r)]
              IN  /\ FileOf(r).status = op.status
                  /\ op.status = "processed" => FileOf(r).processed_at = clock
                  /\ op.status = "error" => FileOf(r).error_details = ErrorDetails(r)

\* C17 witness: a file left in error with a cut message by one run is
\* processed by the next: processed_at is that run's time, the errors gone.
C17_Witness ==
    \E r \in Procs :
        /\ Returned(r) /\ LastWriteDone(r)
        /\ prev.inp.file_id = inp[r].file_id
        /\ EndsWith(prev.ops, "error") /\ Len(prev.ops) \notin prev.failed
        /\ Places(prev.ops, "upsert") # {}
        /\ FileOf(r).status = "processed"
        /\ FileOf(r).processed_at = MaxRuns
        /\ FileOf(r).error_details = NullText

\* C18: the status writes of a run are its first call, a write of
\* processing made before the read and before any delete or upsert, and its
\* last call, a write of processed or of error; there is no other, so a run
\* never writes both processed and error and writes nothing after the
\* terminal one.
C18_StatusWriteOrder ==
    \A r \in Procs :
        LET S == Places(ops[r], "status")
        IN  /\ ops[r] # <<>> =>
                  /\ ops[r][1].op = "status" /\ ops[r][1].status = "processing"
                  /\ \A i \in 2..Len(ops[r]) :
                        ops[r][i].op = "status" =>
                            /\ i = Len(ops[r])
                            /\ ops[r][i].status \in {"processed", "error"}
                            /\ Returned(r)
            /\ Returned(r) => S = {1, Len(ops[r])} /\ Len(ops[r]) >= 3
            /\ pc[r] \in {"idle", "st_processing"} => ops[r] = <<>>

\* C18 witness: both status writes of a run failed and an upsert failed
\* between them: still one write of processing and one of error.
C18_Witness ==
    \E r \in Procs :
        /\ Returned(r)
        /\ FailedAt(r, "status") = {1, Len(ops[r])}
        /\ Places(ops[r], "upsert") # {}
        /\ Places(ops[r], "status") = {1, Len(ops[r])}
        /\ ops[r][Len(ops[r])].status = "processed"

\* C19 as claimed: a run on a file that cleans to zero rows ends with the
\* file's status error.
C19_Original ==
    \A r \in Procs :
        (Returned(r) /\ ~ReadRaises(inp[r]) /\ inp[r].file_path.n = 0)
            => FileOf(r).status = "error"

\* C19, amended: a run on a file that cleans to zero rows does not raise
\* and issues no delete and no upsert: the store stays as the run found it,
\* rows of the same received_file_id included. It ends by one write of
\* status error with the descriptive message, and the file's status is error
\* with that message when the write succeeds.
C19_EmptyFileIsError ==
    \A r \in Procs :
        (~ReadRaises(inp[r]) /\ inp[r].file_path.n = 0 /\ Places(ops[r], "read") # {}) =>
            /\ pc[r] \in {"st_error_empty", "done"}
            /\ exc[r] = NullText
            /\ \A i \in 1..Len(ops[r]) : ops[r][i].op \in {"status", "read"}
            /\ store = store0[r]
            /\ Returned(r) =>
                  /\ Len(ops[r]) = 3
                  /\ EndsWith(ops[r], "error")
                  /\ LastWriteDone(r) =>
                        /\ FileOf(r).status = "error"
                        /\ FileOf(r).error_details = EmptyDetails
                        /\ FileOf(r).error_message = EmptyDetails[1]
                        /\ FileOf(r).processed_at = 0

\* C19 witness: the file id whose rows an earlier run stored comes back
\* empty: the rows are still there and the file is in error.
C19_Witness ==
    \E r \in Procs :
        /\ Returned(r)
        /\ inp[r].file_path = EmptyFile
        /\ \E e \in store : e.received_file_id = inp[r].file_id
        /\ store = store0[r]
        /\ FileOf(r).status = "error"
        /\ FileOf(r).error_details = EmptyDetails

\* The row of the source table a record was made from: the row index is the
\* last part of the record's id.
SourceRow(f, rec) == f.pat[(rec.id[3] % Len(f.pat)) + 1]

\* C14: in the records a call made from its file, a row whose value cell is
\* the text "1.234,56" has the number 1234.56 as gross_value, and a row
\* whose identifier cell is the text "10.0" has the text "10" as store_id.
C14_CleanersScenario ==
    \A r \in Procs : \A i \in 1..Len(records[r]) :
        LET raw == SourceRow(inp[r].file_path, records[r][i])
        IN  /\ raw.valor = Str(<<"1", ".", "2", "3", "4", ",", "5", "6">>)
                    => records[r][i].key[1] = Float(FALSE, 1234, <<"5", "6">>)
            /\ raw.loja_id = Str(<<"1", "0", ".", "0">>)
                    => records[r][i].key[2] = Str(<<"1", "0">>)

\* The fields of a record that come from cells of the source table.
CellFields(rec) == {rec.extra} \cup SeqToSet(rec.key)

\* C15: every record of every batch handed to an upsert is
\* JSON-representable: no field is NaN or an infinity, and every field is
\* null, a text or a finite number, whatever cells the file held.
C15_JsonRepresentable ==
    \A r \in Procs : \A k \in 1..Len(BatchesSent(r)) :
        \A i \in 1..Len(BatchesSent(r)[k]) : \A v \in CellFields(BatchesSent(r)[k][i]) :
            /\ v[1] \notin {"nan", "inf"}
            /\ v[1] \in {"none", "str", "float"}

\* C16: once read_and_clean_data has returned, the layout it detected is
\* the hint when the hint is v3 or legacy after trimming and lower-casing,
\* whatever the columns; with no hint or another hint it is v3 exactly when
\* the four marker columns are all among the columns, and legacy otherwise.
C16_DetectLayout ==
    \A r \in Procs :
        (Places(ops[r], "read") # {} /\ ~ReadRaises(inp[r])) =>
            LET hint == inp[r].layout_hint
                columns == inp[r].file_path.columns
            IN  /\ hint \in V3Hints => layout[r] = Str(<<"v", "3">>)
                /\ hint \in LegacyHints => layout[r] = Str(<<"l", "e", "g", "a", "c", "y">>)
                /\ hint \in OtherHints =>
                       layout[r] = IF \A m \in V3_MARKERS : m \in columns
                                   THEN Str(<<"v", "3">>)
                                   ELSE Str(<<"l", "e", "g", "a", "c", "y">>)

\* A file with every marker column read under the hint "Legacy " (capital
\* and trailing blank): the layout is legacy.
C16_Witness ==
    \E r \in Procs :
        /\ Places(ops[r], "read") # {}
        /\ inp[r].layout_hint = Str(<<"L", "e", "g", "a", "c", "y", " ">>)
        /\ V3_MARKERS \subseteq inp[r].file_path.columns
        /\ layout[r] = Str(<<"l", "e", "g", "a", "c", "y">>)

\* The run r was given a file that cannot be opened, a workbook with an
\* empty sheet list, or delimited text that parses with neither delimiter,
\* and has tried to read it.
InputError(r) ==
    /\ Places(ops[r], "read") # {}
    /\ \/ ~inp[r].file_path.readable
       \/ inp[r].file_path.ext # "csv" /\ inp[r].file_path.sheets = 0
       \/ inp[r].file_path.ext = "csv" /\ ~inp[r].file_path.semi /\ ~inp[r].file_path.comma

\* C20 as claimed: a run that met an input error ends with the file's status
\* error and the failure text in error_details, having read once and issued
\* no delete and no upsert.
C20_Original ==
    \A r \in Procs :
        (Returned(r) /\ InputError(r)) =>
            /\ FileOf(r).status = "error"
            /\ FileOf(r).error_details = FatalDetails(exc[r])
            /\ Cardinality(Places(ops[r], "read")) = 1
            /\ \A i \in 1..Len(ops[r]) : ops[r][i].op \in {"status", "read"}

\* C20, amended: an input error ends the run: the exception goes to the
\* except clause, the file is read once, no delete and no upsert is issued
\* and the store stays as the run found it. The run ends by one write of
\* status error with the failure text in the details; the file's status is
\* error with these details when that write succeeds.
C20_InputErrorIsFatal ==
    \A r \in Procs :
        InputError(r) =>
            /\ pc[r] \in {"st_error_fatal", "done"}
            /\ exc[r] # NullText
            /\ Cardinality(Places(ops[r], "read")) = 1
            /\ \A i \in 1..Len(ops[r]) : ops[r][i].op \in {"status", "read"}
            /\ store = store0[r]
            /\ Returned(r) =>
                  /\ Len(ops[r]) = 3
                  /\ EndsWith(ops[r], "error")
                  /\ LastWriteDone(r) =>
                        /\ FileOf(r).status = "error"
                        /\ FileOf(r).error_details = FatalDetails(exc[r])
                        /\ FileOf(r).error_message = Truncate(FatalDetails(exc[r])[1], MsgLimit)

\* C20 witness: a run on a workbook without sheets has returned; the file is
\* in error with the failure text and three calls were made in all.
C20_Witness ==
    \E r \in Procs :
        /\ Returned(r)
        /\ inp[r].file_path.readable
        /\ inp[r].file_path.ext # "csv"
        /\ inp[r].file_path.sheets = 0
        /\ Len(ops[r]) = 3
        /\ FileOf(r).status = "error"
        /\ FileOf(r).error_details = FatalDetails(exc[r])

\* C24: in every run that issues a call to the conciliation store, the
\* file-scoped delete is issued once and before every other call to the
\* store, the period-scoped deletes follow, one per period from the earliest
\* to the latest, then the upserts, batch after batch, then the terminal
\* status write, which is the last call of the run; no delete comes after an
\* upsert, and processed is written only when every batch was upserted and no
\* upsert failed.
C24_StoreOperationOrder ==
    \A r \in Procs :
        LET o == ops[r]
            F == Places(o, "delete_file")
            P == Places(o, "delete_period")
            U == Places(o, "upsert")
            T == {i \in Places(o, "status") : o[i].status \in {"processed", "error"}}
        IN  /\ (F \cup P \cup U # {}) =>
                  /\ Cardinality(F) = 1
                  /\ \A f \in F : \A i \in P \cup U : f < i
                  /\ \A i \in P : \A j \in U : i < j
                  /\ \A i \in P : \A j \in P : i < j => PeriodLt(o[i].period, o[j].period)
                  /\ \A i \in U : o[i].start = BatchSize * Cardinality({j \in U : j < i})
                  /\ \A t \in T : t = Len(o) /\ \A i \in F \cup P \cup U : i < t
            /\ (pc[r] \in {"delete_period", "upsert", "st_processed"}) => Cardinality(F) = 1
            /\ \A t \in T : o[t].status = "processed" =>
                  /\ U \cap failed[r] = {}
                  /\ F # {}
                  /\ Cardinality(U) * BatchSize >= Len(records[r])
                  /\ P = {t - Cardinality(U) - k : k \in 1..Cardinality(P)}

\* C24 witness: a run on the file of four months has returned after the
\* file-scoped delete, four period-scoped deletes, one upsert and the write
\* of processed.
C24_Witness ==
    \E r \in Procs :
        /\ Returned(r)
        /\ Cardinality(Places(ops[r], "delete_period")) = 4
        /\ Cardinality(Places(ops[r], "upsert")) = 1
        /\ EndsWith(ops[r], "processed")
        /\ Len(ops[r]) = 9

\* C29: once a run has built its records, they are as many as the rows of
\* the cleaned table (the in-file duplicate counter, rows less records, is 0)
\* and their ids differ pairwise; when the batch loop ended with no failed
\* upsert, the records upserted are as many as the rows and all are stored.
\* Were two ids to collide, the earlier record would be kept: of the first
\* records followed by copies under the same ids, the records are kept and
\* the copies dropped.
C29_EveryRowPersisted ==
    \A r \in Procs :
        Places(ops[r], "delete_file") # {} =>
            LET recs == records[r]
                rows == DataFrame(inp[r].file_path)
                first == SubSeq(recs, 1, Min(2, Len(recs)))
                copies == [i \in 1..Len(first) |-> [first[i] EXCEPT !.extra = Str(<<"copy">>)]]
            IN  /\ Len(rows) - Len(recs) = 0
                /\ Cardinality({recs[i].id : i \in 1..Len(recs)}) = Len(recs)
                /\ UniqueRecords(first \o copies) = first
                /\ UniqueRecords(copies \o first) = copies
                /\ (pc[r] \in {"st_processed", "done"} /\ FailedAt(r, "upsert") = {}) =>
                      /\ Len(Flatten(BatchesSent(r))) = Len(rows)
                      /\ pc[r] = "st_processed" => \A i \in 1..Len(recs) : recs[i] \in store

\* C29 witness: a run on the file of two identical rows has returned with
\* two records, both upserted and stored.
C29_Witness ==
    \E r \in Procs :
        /\ Returned(r) /\ FailedAt(r, "upsert") = {}
        /\ inp[r].file_path = JuneDup
        /\ Len(records[r]) = 2
        /\ RowOf(records[r][1]) = RowOf(records[r][2])
        /\ Len(Flatten(BatchesSent(r))) = 2
        /\ \A i \in 1..2 : records[r][i] \in store

\* C30: once a run has issued its period-scoped deletes, they are one per
\* year-month among the non-null competence dates of its rows, no more (none
\* for the rows without a date), each for the run's account; and before the
\* first upsert the store is the store the run found less the entries of the
\* file id (when that delete succeeded) and less, for every period delete
\* that succeeded, the entries of the run's account dated from the first day
\* of the month up to, not including, the first day of the next month,
\* January of the next year after December.
C30_PeriodDeletes ==
    \A r \in Procs :
        (Places(ops[r], "delete_file") # {} /\ pc[r] # "delete_period") =>
            LET P == Places(ops[r], "delete_period")
                rows == DataFrame(inp[r].file_path)
                months == {<<rows[i].competence_date[1], rows[i].competence_date[2]>> :
                              i \in {j \in 1..Len(rows) : rows[j].competence_date # NullDate}}
                from(i) == <<ops[r][i].period[1], ops[r][i].period[2], 1>>
                to(i) == IF ops[r][i].period[2] = 12
                         THEN <<ops[r][i].period[1] + 1, 1, 1>>
                         ELSE <<ops[r][i].period[1], ops[r][i].period[2] + 1, 1>>
                byfile(e) == /\ FailedAt(r, "delete_file") = {}
                             /\ e.received_file_id = inp[r].file_id
                byperiod(e) == \E i \in P \ failed[r] :
                                  /\ e.account_id = inp[r].account_id
                                  /\ e.competence_date # NullDate
                                  /\ ~DateLt(e.competence_date, from(i))
                                  /\ DateLt(e.competence_date, to(i))
            IN  /\ {ops[r][i].period : i \in P} = months
                /\ Cardinality(P) = Cardinality(months)
                /\ \A i \in P : ops[r][i].account_id = inp[r].account_id
                /\ Places(ops[r], "upsert") = {} =>
                      store = {e \in store0[r] : ~byfile(e) /\ ~byperiod(e)}

\* C30 witness: a run whose file has rows of December 2024 and January 2025
\* has deleted both periods, and an entry of 31 December that another file
\* of the account had stored is gone.
C30_Witness ==
    \E r \in Procs :
        /\ {<<2024, 12>>, <<2025, 1>>} \subseteq
              {ops[r][i].period : i \in Places(ops[r], "delete_period") \ failed[r]}
        /\ pc[r] = "upsert" /\ start[r] = 0
        /\ \E e \in store0[r] \ store :
              e.received_file_id # inp[r].file_id /\ e.competence_date = Dec31


\* The canonical fields a mapping produces.
CanonicalFields(column_mapping) == {column_mapping[i][2] : i \in 1..Len(column_mapping)}

\* C23, as stated: the mapping a run uses for a file detected as v3 holds
\* every item of the legacy mapping, and the canonical fields it produces
\* beyond those of the legacy mapping are exactly order_details, balance_id,
\* payment_method and payment_brand.
C23_Original ==
    \A r \in Procs :
        (layout[r] = Str(<<"v", "3">>) /\ frame[r].column_mapping # <<>>) =>
            /\ \A k \in 1..Len(COLUMNS_MAPPING_LEGACY) :
                   \E i \in 1..Len(frame[r].column_mapping) :
                       frame[r].column_mapping[i] = COLUMNS_MAPPING_LEGACY[k]
            /\ CanonicalFields(frame[r].column_mapping) \ CanonicalFields(COLUMNS_MAPPING_LEGACY)
                   = {"order_details", "balance_id", "payment_method", "payment_brand"}

\* C23: the mapping a run uses for a file detected as v3 holds every item of
\* the legacy mapping, in the legacy order, followed by the single item
\* id_saldo -> balance_id; balance_id is the only canonical field it produces
\* that the legacy mapping does not, the legacy mapping producing
\* order_details, payment_method and payment_brand already.
C23_V3MappingAddsBalanceId ==
    \A r \in Procs :
        (layout[r] = Str(<<"v", "3">>) /\ frame[r].column_mapping # <<>>) =>
            /\ frame[r].column_mapping
                   = Append(COLUMNS_MAPPING_LEGACY, <<"id_saldo", "balance_id">>)
            /\ CanonicalFields(frame[r].column_mapping) \ CanonicalFields(COLUMNS_MAPPING_LEGACY)
                   = {"balance_id"}
            /\ {"order_details", "payment_method", "payment_brand"}
                   \subseteq CanonicalFields(COLUMNS_MAPPING_LEGACY)

\* A run read a file detected as v3 and holds its mapping.
C23_Witness ==
    \E r \in Procs :
        /\ layout[r] = Str(<<"v", "3">>)
        /\ Len(frame[r].column_mapping) = 34
        /\ pc[r] = "done"


\* C21, as stated: a legacy hint selects the second worksheet (of a workbook
\* that has one), a v3 hint the first, no recognized hint the second of
\* several and the first of one; whenever the selected worksheet fails to
\* parse, the first worksheet is parsed instead.
C21_Original ==
    \A r \in Procs :
        frame[r].selected_sheet >= 0 =>
            LET f == inp[r].file_path
                hint == NormalizeLayoutHint(inp[r].layout_hint)
                selected_sheet == frame[r].selected_sheet
            IN  /\ (hint = Str(<<"l", "e", "g", "a", "c", "y">>) /\ f.sheets > 1) => selected_sheet = 1
                /\ hint = Str(<<"v", "3">>) => selected_sheet = 0
                /\ (hint = None /\ f.sheets > 1) => selected_sheet = 1
                /\ (hint = None /\ f.sheets = 1) => selected_sheet = 0
                /\ frame[r].parsed =
                       IF selected_sheet \in f.invalid \cup f.broken
                       THEN <<selected_sheet, 0>> ELSE <<selected_sheet>>

\* C21: a legacy hint selects the second worksheet of a workbook that has
\* one and the first of a single-sheet workbook, a v3 hint the first, no
\* recognized hint the second of several and the first of one. The first
\* worksheet is parsed instead exactly when parsing the selected one raises
\* ValueError, and the call then goes on iff that second parse succeeds; when
\* the selected worksheet raises any other exception, nothing else is parsed
\* and the call raises.
C21_SheetSelection ==
    \A r \in Procs :
        frame[r].selected_sheet >= 0 =>
            LET f == inp[r].file_path
                hint == NormalizeLayoutHint(inp[r].layout_hint)
                selected_sheet == frame[r].selected_sheet
                raised == exc[r] # NullText /\ Places(ops[r], "delete_file") = {}
            IN  /\ (hint = Str(<<"l", "e", "g", "a", "c", "y">>) /\ f.sheets > 1) => selected_sheet = 1
                /\ hint = Str(<<"v", "3">>) => selected_sheet = 0
                /\ (hint = None /\ f.sheets > 1) => selected_sheet = 1
                /\ f.sheets = 1 => selected_sheet = 0
                /\ frame[r].parsed =
                       IF selected_sheet \in f.invalid
                       THEN <<selected_sheet, 0>> ELSE <<selected_sheet>>
                /\ selected_sheet \in f.broken => raised
                /\ (selected_sheet \in f.invalid /\ 0 \notin f.invalid \cup f.broken)
                       => ~raised
                /\ (selected_sheet \in f.invalid /\ 0 \in f.invalid \cup f.broken)
                       => raised
                /\ selected_sheet \notin f.invalid \cup f.broken => ~raised

\* A call without a hint on a workbook of several sheets whose second sheet
\* raised ValueError parsed the first one and stored its rows.
C21_Witness ==
    \E r \in Procs :
        /\ inp[r].layout_hint = None
        /\ frame[r].parsed = <<1, 0>>
        /\ pc[r] = "done"
        /\ store # {}


\* C22: the dataframe read_and_clean_data returns has the same columns
\* whatever layout was detected and whatever columns the source had: the
\* canonical fields in the order of the mapping, then the extra schema fields
\* the mapping does not cover, layout_version last, each once and nothing
\* else; on every record layout_version is the detected layout, and a field
\* whose source column the file lacks is null.
C22_FixedColumns ==
    \A r \in Procs :
        frame[r].columns # <<>> =>
            LET columns == frame[r].columns
                column_mapping == frame[r].column_mapping
                f == inp[r].file_path
            IN  /\ columns = [i \in 1..Len(COLUMNS_MAPPING_LEGACY) |-> COLUMNS_MAPPING_LEGACY[i][2]]
                                 \o <<"balance_id", "layout_version">>
                /\ SubSeq(columns, 1, Len(column_mapping))
                       = [i \in 1..Len(column_mapping) |-> column_mapping[i][2]]
                /\ SeqToSet(columns) = CanonicalFields(column_mapping) \cup SeqToSet(EXTRA_COLUMNS)
                /\ Cardinality(SeqToSet(columns)) = Len(columns)
                /\ columns[Len(columns)] = "layout_version"
                /\ layout[r] = DetectLayout(f.columns, inp[r].layout_hint)
                /\ \A i \in 1..Len(records[r]) :
                       /\ DOMAIN records[r][i] =
                              {"id", "natural_hash", "account_id", "received_file_id",
                               "competence_date", "key", "extra", "layout_version"}
                       /\ records[r][i].layout_version = layout[r]
                       /\ "competencia" \notin f.columns
                              => records[r][i].competence_date = NullDate
                       /\ "valor" \notin f.columns => records[r][i].key[1] = None
                       /\ "loja_id" \notin f.columns => records[r][i].key[2] = None
                       /\ "descricao_lancamento" \notin f.columns => records[r][i].key[3] = None
                       /\ "motivo_cancelamento" \notin f.columns => records[r][i].extra = None

\* A call detected v3 on a file that has the marker columns only, and stored
\* records whose other fields are null.
C22_Witness ==
    \E r \in Procs :
        /\ pc[r] = "done"
        /\ layout[r] = Str(<<"v", "3">>)
        /\ inp[r].file_path.columns = V3_MARKERS
        /\ Len(frame[r].columns) = 35
        /\ Len(records[r]) = 2
        /\ \E e \in store : e.layout_version = layout[r] /\ e.extra = None /\ e.key[1] = None


\* C25: when a call for a file has stopped part-way, at a failed upsert or
\* because its process was killed between two calls to the store, and the
\* next call is for the same file with the same content and completes
\* without a failure, the store is what one successful call would have left
\* from the store the first of the two began with (the entries of other files
\* outside the account's periods of the file, and the file's records under
\* the ids the stopped call gave them) and the status is processed.
C25_RetrySelfHeals ==
    \A r \in Procs :
        (/\ Returned(r) /\ failed[r] = {} /\ Completed(ops[r])
         /\ prev.inp = inp[r]
         /\ prev.killed \/ FailedStoreCalls(prev.ops, prev.failed) # {})
            => LET recs == records[r]
                   months == {<<recs[i].competence_date[1], recs[i].competence_date[2]>> :
                                 i \in {j \in 1..Len(recs) : recs[j].competence_date # NullDate}}
                   kept == {e \in prev.store0 :
                               /\ e.received_file_id # inp[r].file_id
                               /\ e.id \notin Ids(recs)
                               /\ ~(/\ e.account_id = inp[r].account_id
                                    /\ \E p \in months : InMonth(e, p))}
               IN  /\ store = kept \cup SeqToSet(recs)
                   /\ Cardinality(store) = Cardinality(kept) + inp[r].file_path.n
                   /\ prev.ids # {} => prev.ids = Ids(recs)
                   /\ files[inp[r].file_id].status = "processed"

\* A call on the file of two batches was killed after its first batch, the
\* next call on the same file completed, and an entry of another file is
\* still stored.
C25_Witness ==
    \E r \in Procs :
        /\ Returned(r) /\ failed[r] = {} /\ Completed(ops[r])
        /\ prev.inp = inp[r] /\ prev.killed
        /\ Cardinality(Places(prev.ops, "upsert")) = 1
        /\ inp[r].file_path.n = BatchSize + 1
        /\ \E e \in store : e.received_file_id # inp[r].file_id
        /\ Cardinality(store) = BatchSize + 2


\* C26: when two calls for the same file id, the same account and the same
\* content run at the same time and no call to the store fails, the store,
\* once both have returned, holds exactly the entries one call produces:
\* every row of the file once.
C26_SameFileConcurrent ==
    (/\ Returned(1) /\ Returned(2)
     /\ inp[1] = inp[2])
        => /\ store = Produced(1)
           /\ store = Produced(2)
           /\ Cardinality({e.id : e \in store}) = Cardinality(store)
           /\ Cardinality(store) =
                  IF inp[1].file_path.readable THEN inp[1].file_path.n ELSE 0

\* Both calls on the two-row file began on the empty store, so that neither
\* began after the other had returned, and both have returned.
C26_Witness ==
    /\ Returned(1) /\ Returned(2)
    /\ inp[1] = inp[2] /\ inp[1].file_path = JuneDup
    /\ store0[1] = {} /\ store0[2] = {}
    /\ Cardinality(store) = 2

\* C27: when two calls for the same account and different files whose
\* records share a period run at the same time, the stored entries of the
\* account in that period, once both have returned, are the records of one
\* of the two files in that period, never some of each.
C27_OneFilePerPeriod ==
    (/\ Returned(1) /\ Returned(2)
     /\ inp[1].account_id = inp[2].account_id
     /\ inp[1].file_id # inp[2].file_id)
        => \A p \in FilePeriods(inp[1].file_path) \cap FilePeriods(inp[2].file_path) :
               LET stored == {e \in store : e.account_id = inp[1].account_id /\ InMonth(e, p)}
               IN  \/ stored = {e \in Produced(1) : InMonth(e, p)}
                   \/ stored = {e \in Produced(2) : InMonth(e, p)}

\* C28: calls for different accounts under different file ids do not touch
\* each other's entries: whatever the other call does, the stored entries of
\* the account of a call are at every moment the records of the batches it
\* has upserted so far, all the records of its file from its last batch on,
\* and once both have returned the store is the union of the records of the
\* two files.
C28_AccountsIndependent ==
    (/\ inp[1].account_id # inp[2].account_id
     /\ inp[1].file_id # inp[2].file_id)
        => /\ \A r \in Procs :
                  {e \in store : e.account_id = inp[r].account_id} =
                      SeqToSet(SubSeq(records[r], 1, Min(start[r], Len(records[r]))))
           /\ \A r \in Procs :
                  pc[r] \in {"st_processed", "done"} =>
                      {e \in store : e.account_id = inp[r].account_id} = Produced(r)
           /\ \A r \in Procs :
                  pc[r] \in {"st_processed", "done"} =>
                      records[r] = UniqueRecords(RecordsToInsert(
                          WithLayoutVersion(DataFrame(inp[r].file_path), layout[r]),
                          inp[r].account_id, inp[r].file_id))
           /\ (Returned(1) /\ Returned(2)) => store = Produced(1) \cup Produced(2)

\* Two calls for different accounts, each on a file with rows of June, have
\* both returned, and one of them began after the other had stored its rows
\* and before it returned.
C28_Witness ==
    /\ Returned(1) /\ Returned(2)
    /\ inp[1].account_id # inp[2].account_id
    /\ inp[1].file_id # inp[2].file_id
    /\ inp[1].file_path = JuneDup /\ inp[2].file_path = JuneOther
    /\ store0[2] = Produced(1)
    /\ files[inp[1].file_id].processed_at = 2
    /\ Cardinality(store) = 4


\* C31: when a file is processed again for the same account with the same
\* content after a call that stored all its batches, and the file-scoped
\* delete and every period-scoped delete of the second call fail, the stored
\* entries are at every moment of the second call those it began with: each
\* record is upserted under the id it already had.
C31_ReprocessWithoutDeletes ==
    \A r \in Procs :
        (/\ prev.inp = inp[r]
         /\ Completed(prev.ops) /\ FailedAt(r, "upsert") = {}
         /\ Places(ops[r], "delete_file") \cup Places(ops[r], "delete_period")
                \subseteq failed[r])
            => /\ store = store0[r]
               /\ records[r] # <<>> => Ids(records[r]) = prev.ids
               /\ (Returned(r) /\ Completed(ops[r])) =>
                      /\ store = Produced(r)
                      /\ Cardinality(store) = inp[r].file_path.n

\* The second call on a file with rows of June has returned after its
\* file-scoped delete and its delete of June both failed and its batches
\* were upserted, and the store is as the first call left it.
C31_Witness ==
    \E r \in Procs :
        /\ Returned(r) /\ Completed(ops[r])
        /\ prev.inp = inp[r] /\ Completed(prev.ops)
        /\ FailedAt(r, "delete_file") # {}
        /\ FailedAt(r, "delete_period") # {}
        /\ FailedAt(r, "delete_period") = Places(ops[r], "delete_period")
        /\ store = store0[r] /\ store # {}


\* C32, as stated: whenever a call has returned and the status of its file
\* is processed, every record made from the file is stored with the call's
\* account_id and received_file_id.
C32_Original ==
    \A r \in Procs :
        (Returned(r) /\ files[inp[r].file_id].status = "processed") =>
            /\ Produced(r) \subseteq store
            /\ Cardinality({e \in store : /\ e.account_id = inp[r].account_id
                                          /\ e.received_file_id = inp[r].file_id})
                   >= inp[r].file_path.n

\* C32: a call writes processed only after every batch was upserted without
\* a failure, so whenever it has issued that write every record made from
\* the file is stored with the call's account_id and received_file_id, one
\* entry per row; and when the status of the file is processed after a call
\* whose records are not all stored, the call wrote no processed and every
\* status write it issued failed.
C32_ProcessedAfterAllBatches ==
    \A r \in Procs :
        /\ (\E i \in Places(ops[r], "status") : ops[r][i].status = "processed") =>
               /\ FailedAt(r, "upsert") = {}
               /\ {ops[r][i].start : i \in Places(ops[r], "upsert")}
                      = BatchStarts(Len(records[r]))
               /\ Produced(r) \subseteq store
               /\ \A e \in Produced(r) :
                      /\ e.account_id = inp[r].account_id
                      /\ e.received_file_id = inp[r].file_id
               /\ Cardinality(Produced(r)) = inp[r].file_path.n
        /\ (/\ Returned(r) /\ files[inp[r].file_id].status = "processed"
            /\ ~(Produced(r) \subseteq store /\ Len(records[r]) = inp[r].file_path.n))
               => /\ \A i \in Places(ops[r], "status") : ops[r][i].status # "processed"
                  /\ Places(ops[r], "status") \subseteq failed[r]

\* A call on the file of two batches has written processed, and the status
\* is processed with the 101 records stored.
C32_Witness ==
    \E r \in Procs :
        /\ Returned(r) /\ LastWriteDone(r) /\ Completed(ops[r])
        /\ files[inp[r].file_id].status = "processed"
        /\ Cardinality(Places(ops[r], "upsert")) = 2
        /\ Cardinality(store) = BatchSize + 1


\* C33: renaming recognises the column names layout detection recognises:
\* when a header of the file, trimmed and lower-cased, is a key of the
\* mapping selected for the detected layout, every record the call makes
\* holds under the canonical field the cleaned cell of that column, not a
\* null put there because the column was taken as absent.
C33_RenameMatchesDetection ==
    \A r \in Procs :
        frame[r].columns # <<>> =>
            LET f == inp[r].file_path
                column_mapping == frame[r].column_mapping
                IsKey(c) == /\ c \in f.columns
                            /\ \E k \in 1..Len(column_mapping) : column_mapping[k][1] = c
            IN  \A i \in 1..Len(records[r]) :
                    LET rec == records[r][i]
                        row == CleanRow(SourceRow(f, rec))
                    IN  /\ IsKey("competencia") => rec.competence_date = row.competence_date
                        /\ IsKey("valor") => rec.key[1] = SanitizeValue(row.key[1])
                        /\ IsKey("loja_id") => rec.key[2] = SanitizeValue(row.key[2])
                        /\ IsKey("descricao_lancamento")
                               => rec.key[3] = SanitizeValue(row.key[3])
                        /\ IsKey("motivo_cancelamento") => rec.extra = SanitizeValue(row.extra)

====
